---------------------------- MODULE Spec2Model ----------------------------
(***************************************************************************)
(* A model of three components of rusty-pullauta:                          *)
(*   - the XYZ binary record store   (src/src/io/xyz.rs)                   *)
(*   - the computation cache         (src/src/cache.rs)                    *)
(*   - the in-memory file system     (src/src/io/fs/memory.rs)             *)
(* Each component has its own specification (SpecXyz, SpecCache, SpecFs)   *)
(* over the shared variable list; a specification leaves the variables of  *)
(* the other components unchanged.                                         *)
(***************************************************************************)
EXTENDS Integers, Sequences, FiniteSets, TLC

VARIABLES
    \* ---- XyzInternalWriter (xyz.rs:59-64) and the storage W it writes to
    w_inner,        \* inner.is_some()
    w_header,       \* the running Header
    w_start,        \* start.is_some()
    file,           \* the bytes of the underlying Cursor<Vec<u8>> / file
    w_pos,          \* the position of the underlying cursor
    w_state,        \* "live" | "dropped"
    w_last,         \* the last writer operation and what it returned
    \* ---- history of the writer, for the properties
    written,        \* the records whose write_record returned Ok, in order
    hdrWrites,      \* how many times finish rewrote the header
    finishCalls,    \* how many times the caller invoked finish()
    fileAtFinish,   \* the bytes as the first successful finish left them
    reported,       \* a failure was reported (Err returned or panic)
    \* ---- XyzInternalReader (xyz.rs:201-207)
    r_state,        \* "none" | "open" | "InvalidData" | "UnexpectedEof"
    r_inner,        \* the bytes the reader was constructed over
    r_pos,          \* the position of the reader's cursor
    r_header,       \* the parsed Header
    records_read,   \* records_read
    r_start,        \* start.is_some()
    r_last,         \* what the last next() returned
    \* ---- history of the reader, for the properties
    r_out,          \* the records next() returned, in order
    r_expect,       \* <<TRUE, ws>> when constructed over the output of a
                    \* finished writer that had written ws, else <<FALSE, <<>>>>
    r_nones,        \* how many times next() returned Ok(None)
    \* ---- the computation cache (cache.rs) and its environment
    no_cache,       \* the environment variable NO_CACHE is set
    version,        \* env!("CARGO_PKG_VERSION") of the running binary
    input_file,     \* the input file: [exists, bytes, mtime]
    cache_file,     \* the cache file: NoFile, Unreadable or the tag it holds
    comp,           \* the CachedComputation: [dependencies_hash], or NoComp
    guards,         \* the ComputationGuards alive, by slot
    c_last,         \* the last cache operation: [op, res]
    \* ---- history of the cache, for the properties
    lastFinal,      \* the inputs seen by the check whose guard was the last
                    \* one finalize wrote the cache file for, or NoKey
    \* ---- MemoryFileSystem (io/fs/memory.rs)
    fs_dirs,        \* the directories below the root, as component lists
    fs_files,       \* file path -> the FileContent in the slot of its
                    \* FileEntry, Absent when the path has no entry
    fs_writers,     \* the WritableFile handles
    fs_readers,     \* the Cursor<FileBytes> handles returned by open
    \* ---- history of the file system, for the properties
    fs_done,        \* the complete outputs of dropped writers that a file or a
                    \* reader still holds
    fs_removed,     \* the paths removed by remove_file and not targeted by a
                    \* create, copy or write_object since
    \* ---- Root::resolve_path (io/fs/memory.rs)
    rp_path,        \* the components of the path of the last call
    rp_result,      \* what the last call returned
    \* ---- HeightMap serialization (io/heightmap.rs)
    hm_map,         \* the HeightMap handed to to_bytes
    hm_bytes,       \* the bytes to_bytes wrote
    hm_read,        \* what from_bytes returned for them, or NotRead
    \* ---- xyz2heightmap (contours.rs)
    xh_pc,          \* the part of the function that runs next
    xh_points,      \* the records of the input file
    xh_cell,        \* 2.0 * scalefactor, the size of a cell in metres
    xh_min,         \* [x, y]: xmin and ymin, in half metres
    xh_w,           \* w
    xh_h,           \* h
    xh_list,        \* list_alt: (x, y) -> [sum, count]
    xh_avg,         \* avg_alt: (x, y) -> average height or NaN
    xh_ret,         \* what the call returned: NoReturn, an Ok heightmap, a panic
    \* ---- polylinebindxfcrop (crop.rs), for one input polyline
    cr_pc,          \* "idle", "loop" over the points, "done"
    cr_p,           \* the input polyline p
    cr_next,        \* how many of its points the loop has taken
    cr_pre,         \* pre: <<>> for None, else <<point>>
    cr_pointcount,  \* pointcount
    cr_poly,        \* poly
    cr_output,      \* output_lines
    \* ---- heightmap2contours (contours.rs): the fence and the level loop
    hc_pc,          \* "idle", "fence", "minmax", "levels", "done"
    hc_v,           \* cinterval, v
    hc_grid,        \* heightmap.grid, the samples as given
    hc_avg,         \* avg_alt
    hc_hmin,        \* hmin
    hc_hmax,        \* hmax
    hc_level,       \* level
    hc_visited,     \* the levels the loop body has run for
    \* ---- bindxfmerge (merge.rs)
    bm_pc,          \* "idle", "suffixes", "merged", "done"
    bm_folder,      \* the files of config.batchoutfolder, by name
    bm_output_dxf,  \* config.output_dxf
    bm_dxf_files,   \* dxf_files: for each suffix the names that matched
    bm_i,           \* the position of the loop in suffixes_to_merge
    bm_bounds,      \* first_file_bounds is Some
    bm_all,         \* all_geometries
    bm_written,     \* the names of the files written
    bm_out,         \* the data of each file written
    bm_ret,         \* "none", "Ok", "Err"
    \* ---- batch mode of main (main.rs): the main thread and its workers
    mt_pc,          \* main thread: "idle", "spawn", "join", "exited"
    mt_proc,        \* config.processes
    mt_handles,     \* how many handles have been pushed
    mt_joined,      \* how many handles have been joined
    mt_exit,        \* how the process ended: "none", "returned", "panicked"
    wk_state,       \* each worker: "none", "running", "complete", "panicked", "killed"
    wk_tiles,       \* the tiles each worker has run
    \* ---- heightmap2contours (contours.rs): the thinning of one polyline
    tn_pc,          \* "idle", "filter", "done"
    tn_in,          \* the polyline with size, xmin and ymin
    tn_i,           \* how many elements the filter has taken
    tn_out,         \* the points collected
    \* ---- knolldetector (knolls.rs): tops, candidates and pins
    kd_pc,          \* "idle", "tops", "candidates", "best", "pins", "done"
    kd_in,          \* the closed loops: elevation, nesting, x.len() >= 13
    kd_live,        \* the loops whose el_x is not empty
    kd_tops,        \* tops
    kd_cands,       \* canditates as the hierarchy loop built it
    kd_new,         \* new_candidates
    kd_pins,        \* the lines of pins.txt
    \* ---- smoothjoin (merge.rs): the classification of one line
    sj_pc,          \* "idle", "height", "classify", "done"
    sj_cfg,         \* formline, indexcontours and interval as smoothjoin holds them
    sj_line,        \* the line: h3, h, depression, layer
    \* ---- heightmap2contours: the assembly of polylines (contours.rs)
    pa_pc,          \* idle, register, walk, done
    pa_segs,        \* the segments check_obj_in has seen, in their order
    pa_obj,         \* obj: the keys in the order they were pushed
    pa_curves,      \* curves: key -> the point at the other end, or NoPoint
    pa_k,           \* the position in obj the walk has come to
    pa_polylines,   \* polylines: the emitted polylines
    \* ---- the head/tail merge loop (merge.rs, knolls.rs)
    jn_pc,          \* idle, for, while, done
    jn_heads,       \* heads: line -> the key of its first point
    jn_tails,       \* tails: line -> the key of its last point
    jn_el,          \* el_x and el_y: line -> its points
    jn_heads1,      \* heads1: key -> a line that ends there, 0 for none
    jn_heads2,      \* heads2: key -> another line that ends there, 0 for none
    jn_l,           \* l of "for l in 0..len"
    \* ---- history of the merge loop, for the properties
    jn_joins,       \* how many iterations have joined two lines
    \* ---- the locks of MemoryFileSystem (io/fs/memory.rs)
    lk_th,          \* thread -> [pc, kind, mode, slot, src, dst]
    lk_rootR,       \* the threads that hold a read guard of the root
    lk_rootW,       \* the thread that holds the write guard of the root, or 0
    lk_slotR,       \* slot -> the threads that hold a read guard of it
    lk_slotW,       \* slot -> the thread that holds its write guard, or 0
    lk_entry,       \* path -> the slot of its FileEntry, 0 without an entry
    lk_writer       \* thread -> the slot its WritableFile is linked to, or 0

xyzVars == <<w_inner, w_header, w_start, file, w_pos, w_state, w_last,
             written, hdrWrites, finishCalls, fileAtFinish, reported,
             r_state, r_inner, r_pos, r_header, records_read, r_start,
             r_last, r_out, r_expect, r_nones>>

cacheVars == <<no_cache, version, input_file, cache_file, comp, guards, c_last,
               lastFinal>>

fsVars == <<fs_dirs, fs_files, fs_writers, fs_readers, fs_done, fs_removed>>

pathVars == <<rp_path, rp_result>>

hmapVars == <<hm_map, hm_bytes, hm_read>>

synthVars == <<xh_pc, xh_points, xh_cell, xh_min, xh_w, xh_h, xh_list, xh_avg,
               xh_ret>>

cropVars == <<cr_pc, cr_p, cr_next, cr_pre, cr_pointcount, cr_poly, cr_output>>

contourVars == <<hc_pc, hc_v, hc_grid, hc_avg, hc_hmin, hc_hmax, hc_level, hc_visited>>

mergeVars == <<bm_pc, bm_folder, bm_output_dxf, bm_dxf_files, bm_i, bm_bounds,
               bm_all, bm_written, bm_out, bm_ret>>

batchVars == <<mt_pc, mt_proc, mt_handles, mt_joined, mt_exit, wk_state, wk_tiles>>

thinVars == <<tn_pc, tn_in, tn_i, tn_out>>

knollVars == <<kd_pc, kd_in, kd_live, kd_tops, kd_cands, kd_new, kd_pins>>

smoothVars == <<sj_pc, sj_cfg, sj_line>>

assembleVars == <<pa_pc, pa_segs, pa_obj, pa_curves, pa_k, pa_polylines>>

joinVars == <<jn_pc, jn_heads, jn_tails, jn_el, jn_heads1, jn_heads2, jn_l, jn_joins>>

lockVars == <<lk_th, lk_rootR, lk_rootW, lk_slotR, lk_slotW, lk_entry, lk_writer>>

vars == <<xyzVars, cacheVars, fsVars, pathVars, hmapVars, synthVars,
          cropVars, contourVars, mergeVars, batchVars, thinVars, knollVars,
          smoothVars, assembleVars, joinVars, lockVars>>

\* what the steps of one component leave alone
notXyz == <<cacheVars, fsVars, pathVars, hmapVars, synthVars, cropVars, contourVars,
    mergeVars, batchVars, thinVars, knollVars, smoothVars, assembleVars,
    joinVars, lockVars>>
notCache == <<xyzVars, fsVars, pathVars, hmapVars, synthVars, cropVars, contourVars,
    mergeVars, batchVars, thinVars, knollVars, smoothVars, assembleVars,
    joinVars, lockVars>>
notFs == <<xyzVars, cacheVars, pathVars, hmapVars, synthVars, cropVars, contourVars,
    mergeVars, batchVars, thinVars, knollVars, smoothVars, assembleVars,
    joinVars, lockVars>>
notPath == <<xyzVars, cacheVars, fsVars, hmapVars, synthVars, cropVars, contourVars,
    mergeVars, batchVars, thinVars, knollVars, smoothVars, assembleVars,
    joinVars, lockVars>>
notHmap == <<xyzVars, cacheVars, fsVars, pathVars, synthVars, cropVars, contourVars,
    mergeVars, batchVars, thinVars, knollVars, smoothVars, assembleVars,
    joinVars, lockVars>>
notSynth == <<xyzVars, cacheVars, fsVars, pathVars, hmapVars, cropVars, contourVars,
    mergeVars, batchVars, thinVars, knollVars, smoothVars, assembleVars,
    joinVars, lockVars>>
notCrop == <<xyzVars, cacheVars, fsVars, pathVars, hmapVars, synthVars, contourVars,
    mergeVars, batchVars, thinVars, knollVars, smoothVars, assembleVars,
    joinVars, lockVars>>
notContour == <<xyzVars, cacheVars, fsVars, pathVars, hmapVars, synthVars, cropVars,
    mergeVars, batchVars, thinVars, knollVars, smoothVars, assembleVars,
    joinVars, lockVars>>
notMerge == <<xyzVars, cacheVars, fsVars, pathVars, hmapVars, synthVars, cropVars,
    contourVars, batchVars, thinVars, knollVars, smoothVars, assembleVars,
    joinVars, lockVars>>
notBatch == <<xyzVars, cacheVars, fsVars, pathVars, hmapVars, synthVars, cropVars,
    contourVars, mergeVars, thinVars, knollVars, smoothVars, assembleVars,
    joinVars, lockVars>>
notThin == <<xyzVars, cacheVars, fsVars, pathVars, hmapVars, synthVars, cropVars,
    contourVars, mergeVars, batchVars, knollVars, smoothVars, assembleVars,
    joinVars, lockVars>>
notKnoll == <<xyzVars, cacheVars, fsVars, pathVars, hmapVars, synthVars, cropVars,
    contourVars, mergeVars, batchVars, thinVars, smoothVars, assembleVars,
    joinVars, lockVars>>
notSmooth == <<xyzVars, cacheVars, fsVars, pathVars, hmapVars, synthVars, cropVars,
    contourVars, mergeVars, batchVars, thinVars, knollVars, assembleVars,
    joinVars, lockVars>>
notAssemble == <<xyzVars, cacheVars, fsVars, pathVars, hmapVars, synthVars, cropVars,
    contourVars, mergeVars, batchVars, thinVars, knollVars, smoothVars,
    joinVars, lockVars>>
notJoin == <<xyzVars, cacheVars, fsVars, pathVars, hmapVars, synthVars, cropVars,
    contourVars, mergeVars, batchVars, thinVars, knollVars, smoothVars,
    assembleVars, lockVars>>
notLock == <<xyzVars, cacheVars, fsVars, pathVars, hmapVars, synthVars, cropVars,
    contourVars, mergeVars, batchVars, thinVars, knollVars, smoothVars,
    assembleVars, joinVars>>

(***************************************************************************)
(* Bounds of the model.                                                    *)
(***************************************************************************)
MaxRecords == 3      \* records written by one writer
MaxFinish == 2       \* explicit finish() calls on one writer
MaxNones == 2        \* next() calls answered None that are counted
MaxMtime == 1        \* modification times of the input file are 0..MaxMtime
MaxVersion == 2      \* tool versions are 1..MaxVersion
MaxGuards == 1       \* ComputationGuards alive at the same time
MaxLen == 1          \* bytes written through one writer
MaxComponents == 4   \* components of a path given to resolve_path
MaxDim == 2          \* width and height of a serialized grid are 0..MaxDim
MaxPoints == 2       \* records of the point cloud given to xyz2heightmap
MaxVertices == 4     \* points of a polyline given to polylinebindxfcrop
MaxSamples == 2      \* samples of the grid given to heightmap2contours
MaxEntities == 1     \* entities of one geometry of a dxf.bin file
MaxProc == 3         \* config.processes in batch mode
MaxTiles == 2        \* tiles one worker runs
MaxLine == 16        \* points of an assembled polyline given to the thinning
MaxLoops == 4        \* closed loops given to knolldetector
MaxHeight == 20      \* highest grid height of smoothjoin, in units of 1.25 m
MaxSegments == 5          \* segments of one level
MaxLines == 3             \* polylines handed to the merge loop
MaxThreads == 2           \* threads that use the file system at a time

(***************************************************************************)
(* Little helpers.                                                         *)
(***************************************************************************)
Min2(a, b) == IF a <= b THEN a ELSE b
Max2(a, b) == IF a >= b THEN a ELSE b
Abs(a) == IF a < 0 THEN -a ELSE a
RECURSIVE Pow2(_)
Pow2(n) == IF n = 0 THEN 1 ELSE 2 * Pow2(n - 1)
SetMin(S) == CHOOSE m \in S : \A s \in S : m <= s
SetMax(S) == CHOOSE m \in S : \A s \in S : m >= s
Zeros(n) == [i \in 1..n |-> 0]
Slice(s, from, len) == SubSeq(s, from + 1, from + len)   \* 0-based offset

(***************************************************************************)
(* io::bytes (not in the source tree): fixed-width little-endian encoding  *)
(* of the primitives.  An f64 of the model is an integer of magnitude      *)
(* below 2^20, +-Inf or NaN; it is encoded as its IEEE-754 binary64        *)
(* pattern.                                                                *)
(***************************************************************************)
Inf == 1048576               \* f64::INFINITY; finite model values are below
NegInf == -Inf               \* f64::NEG_INFINITY
F64Other == 2 * Inf          \* any bit pattern outside the modelled values
NaN == 3 * Inf               \* f64::NAN

\* == on f64: NaN is equal to nothing
F64Eq(a, b) == a # NaN /\ b # NaN /\ a = b

RECURSIVE U64ToBytesN(_, _)
U64ToBytesN(n, k) ==
    IF k = 0 THEN <<>> ELSE <<n % 256>> \o U64ToBytesN(n \div 256, k - 1)
U64ToBytes(n) == U64ToBytesN(n, 8)

RECURSIVE U64FromBytes(_)
U64FromBytes(b) ==
    IF b = <<>> THEN 0
    ELSE IF \A i \in 1..Len(b) : b[i] = 0 THEN 0
    ELSE b[1] + 256 * U64FromBytes(Tail(b))

\* floor(log2 a) for 1 <= a < 2^20
Log2(a) == CHOOSE e \in 0..19 : Pow2(e) <= a /\ a < Pow2(e + 1)

F64ToBytes(v) ==
    IF v = NaN THEN <<0, 0, 0, 0, 0, 0, 248, 127>> ELSE
    LET sign == IF v < 0 THEN 1 ELSE 0
        a == Abs(v)
        biased == IF a = 0 THEN 0 ELSE IF a = Inf THEN 2047 ELSE 1023 + Log2(a)
        m20 == IF a = 0 \/ a = Inf THEN 0
               ELSE (a - Pow2(Log2(a))) * Pow2(20 - Log2(a))
    IN  <<0, 0, 0, 0,
          m20 % 256,
          (m20 \div 256) % 256,
          (biased % 16) * 16 + m20 \div 65536,
          sign * 128 + biased \div 16>>

F64FromBytes(b) ==
    LET sign == b[8] \div 128
        biased == (b[8] % 128) * 16 + b[7] \div 16
        m20 == (b[7] % 16) * 65536 + b[6] * 256 + b[5]
        low0 == \A i \in 1..4 : b[i] = 0
        e == biased - 1023
        mag == IF biased = 0 /\ m20 = 0 /\ low0 THEN 0
               ELSE IF biased = 2047 /\ m20 = 0 /\ low0 THEN Inf
               ELSE IF e \in 0..19 /\ low0 /\ m20 % Pow2(20 - e) = 0
                    THEN Pow2(e) + m20 \div Pow2(20 - e)
               ELSE F64Other
    IN  IF biased = 2047 /\ ~(m20 = 0 /\ low0) THEN NaN
        ELSE IF mag = F64Other THEN F64Other
        ELSE IF sign = 1 THEN -mag ELSE mag


(***************************************************************************)
(* std::io::Cursor<Vec<u8>>, the storage the writer of the tests and the   *)
(* in-memory files write to: a write at a position past the end fills the  *)
(* gap with zeros, a write inside the data overwrites it.                  *)
(***************************************************************************)
CursorWrite(buf, pos, bytes) ==
    LET padded == IF pos > Len(buf) THEN buf \o Zeros(pos - Len(buf)) ELSE buf
        stop == pos + Len(bytes)
        newlen == Max2(Len(padded), stop)
    IN  [i \in 1..newlen |->
            IF i > pos /\ i <= stop THEN bytes[i - pos] ELSE padded[i]]

(***************************************************************************)
(* XYZ binary record store (src/src/io/xyz.rs).                            *)
(***************************************************************************)
XYZ_MAGIC == <<88, 89, 90, 66>>            \* b"XYZB"

XyzRecord(x, y, z, c, n, r) ==
    [x |-> x, y |-> y, z |-> z, classification |-> c,
     number_of_returns |-> n, return_number |-> r]

\* the records a caller hands to write_record
Records == { XyzRecord(1, 2, 3, 4, 5, 6),
             XyzRecord(-12, -3, 40, 5, 6, 7),
             XyzRecord(0, 7, -5, 2, 1, 1) }

RecordToBytes(rec) ==
    F64ToBytes(rec.x) \o F64ToBytes(rec.y) \o F64ToBytes(rec.z)
        \o <<rec.classification, rec.number_of_returns, rec.return_number>>

RecordFromBytes(b) ==
    XyzRecord(F64FromBytes(Slice(b, 0, 8)), F64FromBytes(Slice(b, 8, 8)),
              F64FromBytes(Slice(b, 16, 8)), b[25], b[26], b[27])

HeaderToBytes(h) ==
    U64ToBytes(h.n_records)
        \o F64ToBytes(h.min_x) \o F64ToBytes(h.max_x)
        \o F64ToBytes(h.min_y) \o F64ToBytes(h.max_y)
        \o F64ToBytes(h.min_z) \o F64ToBytes(h.max_z)

HeaderFromBytes(b) ==
    [n_records |-> U64FromBytes(Slice(b, 0, 8)),
     min_x |-> F64FromBytes(Slice(b, 8, 8)),
     max_x |-> F64FromBytes(Slice(b, 16, 8)),
     min_y |-> F64FromBytes(Slice(b, 24, 8)),
     max_y |-> F64FromBytes(Slice(b, 32, 8)),
     min_z |-> F64FromBytes(Slice(b, 40, 8)),
     max_z |-> F64FromBytes(Slice(b, 48, 8))]

HeaderNew ==
    [n_records |-> 0,
     min_x |-> Inf, max_x |-> NegInf,
     min_y |-> Inf, max_y |-> NegInf,
     min_z |-> Inf, max_z |-> NegInf]

HeaderLen == Len(HeaderToBytes(HeaderNew))                   \* u64 + 6 * f64
RecordLen == Len(RecordToBytes(XyzRecord(0, 0, 0, 0, 0, 0)))  \* 3 * f64 + 3 * u8

\* a slip of the kind Header::update invites: max_y fed from min
HeaderUpdateSwapped(h, rec) ==
    [n_records |-> h.n_records + 1,
     min_x |-> Min2(h.min_x, rec.x), max_x |-> Max2(h.max_x, rec.x),
     min_y |-> Min2(h.min_y, rec.y), max_y |-> Min2(h.max_y, rec.y),
     min_z |-> Min2(h.min_z, rec.z), max_z |-> Max2(h.max_z, rec.z)]

HeaderUpdate(h, rec) ==
    [n_records |-> h.n_records + 1,
     min_x |-> Min2(h.min_x, rec.x), max_x |-> Max2(h.max_x, rec.x),
     min_y |-> Min2(h.min_y, rec.y), max_y |-> Max2(h.max_y, rec.y),
     min_z |-> Min2(h.min_z, rec.z), max_z |-> Max2(h.max_z, rec.z)]

\* ---- XyzInternalWriter ------------------------------------------------

\* the bytes one successful write_record hands to the inner writer
WriteRecordBytes(h, rec) ==
    (IF h.n_records = 0 THEN XYZ_MAGIC \o HeaderToBytes(h) ELSE <<>>)
        \o RecordToBytes(rec)

\* write_record(record); io = FALSE makes its first write to inner fail
write_record(rec, io) ==
    /\ w_state = "live"
    /\ Len(written) < MaxRecords
    /\ IF ~w_inner
       THEN /\ w_last' = [op |-> "write_record", res |-> "ErrOther"]
            /\ UNCHANGED <<w_header, w_start, file, w_pos, written>>
       ELSE IF ~io
       THEN /\ w_last' = [op |-> "write_record", res |-> "ErrIo"]
            /\ w_start' = (w_start \/ w_header.n_records = 0)
            /\ UNCHANGED <<w_header, file, w_pos, written>>
       ELSE /\ w_last' = [op |-> "write_record", res |-> "Ok"]
            /\ w_start' = (w_start \/ w_header.n_records = 0)
            /\ file' = CursorWrite(file, w_pos, WriteRecordBytes(w_header, rec))
            /\ w_pos' = w_pos + Len(WriteRecordBytes(w_header, rec))
            /\ w_header' = HeaderUpdate(w_header, rec)
            /\ written' = Append(written, rec)
    /\ UNCHANGED <<w_inner, w_state, hdrWrites, finishCalls, fileAtFinish,
                   reported>>

\* what finish() returns
FinishResult(io) ==
    IF ~w_inner THEN "ErrOther" ELSE IF io THEN "Ok" ELSE "ErrIo"

\* a finish that forgets to take the inner writer
FinishBodyKeepsInner(io) ==
    /\ UNCHANGED w_inner
    /\ IF w_inner /\ io
       THEN /\ file' = CursorWrite(file, Len(XYZ_MAGIC), HeaderToBytes(w_header))
            /\ w_pos' = Len(XYZ_MAGIC) + HeaderLen
            /\ hdrWrites' = hdrWrites + 1
            /\ fileAtFinish' = IF hdrWrites = 0 THEN file' ELSE fileAtFinish
       ELSE UNCHANGED <<file, w_pos, hdrWrites, fileAtFinish>>

\* the body of finish(): take inner, seek behind the magic, rewrite the header
FinishBody(io) ==
    /\ w_inner' = FALSE
    /\ IF w_inner /\ io
       THEN /\ file' = CursorWrite(file, Len(XYZ_MAGIC), HeaderToBytes(w_header))
            /\ w_pos' = Len(XYZ_MAGIC) + HeaderLen
            /\ hdrWrites' = hdrWrites + 1
            /\ fileAtFinish' = IF hdrWrites = 0 THEN file' ELSE fileAtFinish
       ELSE UNCHANGED <<file, w_pos, hdrWrites, fileAtFinish>>

\* an explicit finish(); io = FALSE makes the seek fail
finish(io) ==
    /\ w_state = "live"
    /\ finishCalls < MaxFinish
    /\ finishCalls' = finishCalls + 1
    /\ FinishBody(io)
    /\ w_last' = [op |-> "finish", res |-> FinishResult(io)]
    /\ reported' = IF FinishResult(io) = "ErrIo" THEN "finishErr" ELSE reported
    /\ UNCHANGED <<w_header, w_start, w_state, written>>

\* a Drop that does not finalize
dropForgets(io) ==
    /\ w_state = "live"
    /\ w_state' = "dropped"
    /\ w_last' = [op |-> "drop", res |-> "Ok"]
    /\ UNCHANGED <<w_inner, file, w_pos, hdrWrites, fileAtFinish, reported,
                   w_header, w_start, written, finishCalls>>

\* Drop for XyzInternalWriter: finish().expect(..) if inner is still there
drop(io) ==
    /\ w_state = "live"
    /\ w_state' = "dropped"
    /\ IF w_inner
       THEN /\ FinishBody(io)
            /\ w_last' = [op |-> "drop",
                          res |-> IF FinishResult(io) = "Ok" THEN "Ok" ELSE "Panic"]
            /\ reported' = IF FinishResult(io) = "Ok" THEN reported ELSE "dropPanic"
       ELSE /\ w_last' = [op |-> "drop", res |-> "Ok"]
            /\ UNCHANGED <<w_inner, file, w_pos, hdrWrites, fileAtFinish, reported>>
    /\ UNCHANGED <<w_header, w_start, written, finishCalls>>

writerVars == <<w_inner, w_header, w_start, file, w_pos, w_state, w_last,
                written, hdrWrites, finishCalls, fileAtFinish, reported>>
readerVars == <<r_state, r_inner, r_pos, r_header, records_read, r_start,
                r_last, r_out, r_expect, r_nones>>

\* ---- XyzInternalReader ------------------------------------------------

\* byte vectors a reader may be handed besides the writer's file
BadInputs ==
    { <<>>,
      <<88, 89, 90>>,
      XYZ_MAGIC,
      <<88, 89, 90, 65>> \o HeaderToBytes(HeaderNew),
      IF Len(file) >= Len(XYZ_MAGIC) THEN [file EXCEPT ![1] = 120] ELSE <<120>>,
      IF Len(file) >= 1 THEN SubSeq(file, 1, Len(file) - 1) ELSE <<>> }

\* a reader constructor that does not compare the magic
ReaderNewResultNoMagic(input) ==
    IF Len(input) < Len(XYZ_MAGIC) + HeaderLen THEN "UnexpectedEof" ELSE "open"

\* what XyzInternalReader::new answers for an input
ReaderNewResult(input) ==
    IF Len(input) < Len(XYZ_MAGIC) THEN "UnexpectedEof"
    ELSE IF Slice(input, 0, Len(XYZ_MAGIC)) # XYZ_MAGIC THEN "InvalidData"
    ELSE IF Len(input) < Len(XYZ_MAGIC) + HeaderLen THEN "UnexpectedEof"
    ELSE "open"

\* XyzInternalReader::new(inner)
ReaderNew(input) ==
    /\ r_inner' = input
    /\ r_state' = ReaderNewResult(input)
    /\ r_expect' = IF input = file /\ hdrWrites >= 1
                   THEN <<TRUE, written>> ELSE <<FALSE, <<>>>>
    /\ IF ReaderNewResult(input) = "open"
       THEN /\ r_header' = HeaderFromBytes(Slice(input, Len(XYZ_MAGIC), HeaderLen))
            /\ r_pos' = Len(XYZ_MAGIC) + HeaderLen
       ELSE /\ r_header' = HeaderNew
            /\ r_pos' = 0
    /\ records_read' = 0
    /\ r_start' = FALSE
    /\ r_last' = "none"
    /\ r_out' = <<>>
    /\ r_nones' = 0
    /\ UNCHANGED writerVars

\* XyzInternalReader::next()
next ==
    /\ r_state = "open"
    /\ r_nones < MaxNones
    /\ IF records_read >= r_header.n_records
       THEN /\ r_last' = "None"
            /\ r_nones' = r_nones + 1
            /\ UNCHANGED <<r_pos, records_read, r_start, r_out>>
       ELSE /\ r_start' = (r_start \/ records_read = 0)
            /\ IF r_pos + RecordLen > Len(r_inner)
               THEN /\ r_last' = "UnexpectedEof"
                    /\ r_pos' = Len(r_inner)
                    /\ UNCHANGED <<records_read, r_out>>
               ELSE /\ r_last' = "Some"
                    /\ r_pos' = r_pos + RecordLen
                    /\ records_read' = records_read + 1
                    /\ r_out' = Append(r_out,
                           RecordFromBytes(Slice(r_inner, r_pos, RecordLen)))
            /\ UNCHANGED r_nones
    /\ UNCHANGED <<r_state, r_inner, r_header, r_expect>>
    /\ UNCHANGED writerVars

InitXyz ==
    /\ w_inner = TRUE
    /\ w_header = HeaderNew
    /\ w_start = FALSE
    /\ file = <<>>
    /\ w_pos = 0
    /\ w_state = "live"
    /\ w_last = [op |-> "new", res |-> "Ok"]
    /\ written = <<>>
    /\ hdrWrites = 0
    /\ finishCalls = 0
    /\ fileAtFinish = <<>>
    /\ reported = "none"
    /\ r_state = "none"
    /\ r_inner = <<>>
    /\ r_pos = 0
    /\ r_header = HeaderNew
    /\ records_read = 0
    /\ r_start = FALSE
    /\ r_last = "none"
    /\ r_out = <<>>
    /\ r_expect = <<FALSE, <<>>>>
    /\ r_nones = 0

WriterStep ==
    /\ \/ \E rec \in Records, io \in BOOLEAN : write_record(rec, io)
       \/ \E io \in BOOLEAN : finish(io)
       \/ \E io \in BOOLEAN : drop(io)
    /\ UNCHANGED readerVars

ReaderStep ==
    \/ ReaderNew(file)
    \/ \E input \in BadInputs : ReaderNew(input)
    \/ next

NextXyz == (WriterStep \/ ReaderStep) /\ UNCHANGED notXyz

(***************************************************************************)
(* Properties of the XYZ record store.                                     *)
(***************************************************************************)
RECURSIVE RecordsToBytes(_)
RecordsToBytes(ws) ==
    IF ws = <<>> THEN <<>> ELSE RecordToBytes(Head(ws)) \o RecordsToBytes(Tail(ws))

IsPrefix(s, t) == Len(s) <= Len(t) /\ s = SubSeq(t, 1, Len(s))

\* the header that n >= 1 records ws must have produced
BoundsOf(ws) ==
    [n_records |-> Len(ws),
     min_x |-> SetMin({ws[i].x : i \in 1..Len(ws)}),
     max_x |-> SetMax({ws[i].x : i \in 1..Len(ws)}),
     min_y |-> SetMin({ws[i].y : i \in 1..Len(ws)}),
     max_y |-> SetMax({ws[i].y : i \in 1..Len(ws)}),
     min_z |-> SetMin({ws[i].z : i \in 1..Len(ws)}),
     max_z |-> SetMax({ws[i].z : i \in 1..Len(ws)})]

\* a reader over the output of a finished writer behaves as the round trip asks
RoundTripOk ==
    /\ r_state = "open"
    /\ r_last \in {"none", "Some", "None"}
    /\ IsPrefix(r_out, r_expect[2])
    /\ Len(r_out) = records_read
    /\ (r_nones > 0 => r_out = r_expect[2])

\* C1: for every finite sequence of records written and then finished, a
\* reader over the produced bytes returns exactly those records, in order,
\* and None on every call after the last one.
C1_RoundTrip == r_expect[1] => RoundTripOk

\* C1, the part that holds: the round trip of every sequence of at least one
\* record.
C1_RoundTripNonEmpty == (r_expect[1] /\ r_expect[2] # <<>>) => RoundTripOk

\* C2: after n >= 1 records were written, the header's n_records is n and its
\* min/max fields are the coordinate-wise minimum and maximum over all the
\* written records, whatever their order.
C2_HeaderAccumulation == Len(written) >= 1 => w_header = BoundsOf(written)

\* C2 witness: the two records of test_header, written in the other order
C2_Witness ==
    /\ written = <<XyzRecord(-12, -3, 40, 5, 6, 7), XyzRecord(1, 2, 3, 4, 5, 6)>>
    /\ w_header = [n_records |-> 2, min_x |-> -12, max_x |-> 1,
                   min_y |-> -3, max_y |-> 2, min_z |-> 3, max_z |-> 40]

\* C3: for every n >= 0 records written followed by finish or drop, the bytes
\* begin with "XYZB", immediately followed by the header holding the final
\* count and bounds, with the records after it.
C3_MagicHeaderRecords ==
    hdrWrites >= 1 =>
        /\ w_header.n_records = Len(written)
        /\ file = XYZ_MAGIC \o HeaderToBytes(w_header) \o RecordsToBytes(written)

\* C3, the part that holds: the layout when at least one record was written,
\* and four zero bytes in the place of the magic when none was.
C3_LayoutAsBuilt ==
    hdrWrites >= 1 =>
        /\ w_header.n_records = Len(written)
        /\ file = (IF written = <<>> THEN Zeros(Len(XYZ_MAGIC)) ELSE XYZ_MAGIC)
                    \o HeaderToBytes(w_header) \o RecordsToBytes(written)

\* a second finish() was called after a first one that succeeded
SecondFinish == w_last.op = "finish" /\ finishCalls >= 2 /\ hdrWrites = 1

\* C4 as claimed: a second finish after a first successful one succeeds and
\* leaves the written file exactly as the first finish left it.
C4_SecondFinishSucceeds ==
    SecondFinish => (w_last.res = "Ok" /\ file = fileAtFinish)

\* C4 as amended: a second finish after a first successful one returns the
\* error "writer has already been finished" and leaves the written file
\* exactly as the first finish left it.
C4_SecondFinishRejected ==
    /\ SecondFinish => w_last.res = "ErrOther"
    /\ hdrWrites >= 1 => file = fileAtFinish

\* C4 witness: a file with a record, finished twice
C4_Witness == SecondFinish /\ Len(written) >= 1 /\ file = fileAtFinish

\* the header as it stands in the file
HeaderInFile == Slice(file, Len(XYZ_MAGIC), HeaderLen)

C5_State ==
    /\ hdrWrites <= 1
    /\ (w_state = "dropped" => (hdrWrites = 1 \/ reported # "none"))
    /\ (hdrWrites = 1 => HeaderInFile = HeaderToBytes(w_header))
    /\ (w_state = "dropped" /\ finishCalls = 0 =>
            \/ w_last = [op |-> "drop", res |-> "Ok"] /\ hdrWrites = 1
            \/ w_last = [op |-> "drop", res |-> "Panic"] /\ reported = "dropPanic")
    /\ (w_state = "dropped" /\ finishCalls >= 1 =>
            w_last = [op |-> "drop", res |-> "Ok"])

C5_Step ==
    (w_state = "live" /\ w_state' = "dropped" /\ ~w_inner) =>
        (file' = file /\ hdrWrites' = hdrWrites)

\* C5: on every exit path the header is finalized exactly once: a writer
\* dropped without finish performs the header rewrite of finish in drop (and
\* panics if that fails); after finish was called, drop writes nothing.
C5_FinalizedOnce == [](C5_State) /\ [][C5_Step]_vars

\* C5 witness: a writer with records dropped without finish, header rewritten
C5_Witness ==
    /\ w_state = "dropped" /\ finishCalls = 0 /\ hdrWrites = 1
    /\ Len(written) >= 1
    /\ HeaderInFile = HeaderToBytes(BoundsOf(written))

StartsWithMagic(b) ==
    Len(b) >= Len(XYZ_MAGIC) /\ Slice(b, 0, Len(XYZ_MAGIC)) = XYZ_MAGIC

\* C6: XyzInternalReader::new fails with InvalidData, and yields no reader,
\* whenever the first four bytes of the input differ from "XYZB"; no record is
\* ever returned from such an input.  (An input shorter than four bytes has
\* no first four bytes: new fails on it too, with UnexpectedEof.)
C6_BadMagicRejected ==
    (r_state # "none" /\ ~StartsWithMagic(r_inner)) =>
        /\ r_state # "open"
        /\ r_out = <<>>
        /\ (Len(r_inner) >= Len(XYZ_MAGIC) => r_state = "InvalidData")

\* C6 witness: an input with a header and records behind a wrong magic
C6_Witness ==
    /\ r_state = "InvalidData"
    /\ Len(r_inner) >= Len(XYZ_MAGIC) + HeaderLen + RecordLen
    /\ r_inner[1] = 120

(***************************************************************************)
(* Computation cache (src/src/cache.rs).  The environment is the input     *)
(* file, the cache file, the variable NO_CACHE and the version compiled    *)
(* into the binary.  Hashes are kept symbolic: a tag is the tuple of what   *)
(* was fed to the hasher, so two tags are equal exactly when all hashed    *)
(* values are (the hashes are taken to be free of collisions).             *)
(***************************************************************************)
NoFile == <<"NoFile">>              \* the path does not exist
Unreadable == <<"Unreadable">>      \* the file exists and is not valid UTF-8
NoTag == <<"NoTag">>                \* new_cache_tag: None
NoKey == [version |-> 0, deps |-> "none", mtime |-> 0, bytes |-> "none"]
NoComp == [dependencies_hash |-> "none"]
NoGuard == [live |-> FALSE, new_cache_tag |-> NoTag, made |-> NoKey]
InputPath == "input_file"
FileContents == {"bytes1", "bytes2"}
Fingerprints == {"deps1", "deps2"}

\* FxHasher over the whole content of the file
file_content_hash(bytes) == <<"fx", bytes>>

\* an expected tag that leaves the version out of the hash
ExpectedTagNoVersion(v, dh, inp) ==
    <<"tag", dh, InputPath, inp.mtime, file_content_hash(inp.bytes)>>

\* expected_tag: the grand hash, as a string
ExpectedTag(v, dh, inp) ==
    <<"tag", v, dh, InputPath, inp.mtime, file_content_hash(inp.bytes)>>

\* a check that compares the tags and recomputes either way
NeedsRecomputeFallibleAlways(dh, v, inp, cf) ==
    IF ~inp.exists THEN [res |-> "Err", tag |-> NoTag]
    ELSE IF cf = NoFile THEN [res |-> "Some", tag |-> ExpectedTag(v, dh, inp)]
    ELSE IF cf = Unreadable THEN [res |-> "Err", tag |-> NoTag]
    ELSE [res |-> "Some", tag |-> ExpectedTag(v, dh, inp)]

\* needs_recompute_fallible: Err, None or Some(guard with the expected tag)
NeedsRecomputeFallible(dh, v, inp, cf) ==
    IF ~inp.exists THEN [res |-> "Err", tag |-> NoTag]
    ELSE IF cf = NoFile THEN [res |-> "Some", tag |-> ExpectedTag(v, dh, inp)]
    ELSE IF cf = Unreadable THEN [res |-> "Err", tag |-> NoTag]
    ELSE IF cf # ExpectedTag(v, dh, inp)
         THEN [res |-> "Some", tag |-> ExpectedTag(v, dh, inp)]
    ELSE [res |-> "None", tag |-> NoTag]

\* a needs_recompute that does not look at NO_CACHE
NeedsRecomputeIgnoresEnv(nc, dh, v, inp, cf) ==
    IF NeedsRecomputeFallible(dh, v, inp, cf).res = "Err"
    THEN [res |-> "Some", tag |-> NoTag]
    ELSE NeedsRecomputeFallible(dh, v, inp, cf)

\* a needs_recompute that hands the failure of the check to its caller
NeedsRecomputePropagates(nc, dh, v, inp, cf) ==
    IF nc THEN [res |-> "Some", tag |-> NoTag]
    ELSE NeedsRecomputeFallible(dh, v, inp, cf)

\* needs_recompute: None, or Some(guard) carrying new_cache_tag
NeedsRecompute(nc, dh, v, inp, cf) ==
    IF nc THEN [res |-> "Some", tag |-> NoTag]
    ELSE IF NeedsRecomputeFallible(dh, v, inp, cf).res = "Err"
         THEN [res |-> "Some", tag |-> NoTag]
    ELSE NeedsRecomputeFallible(dh, v, inp, cf)

\* the inputs a check saw
KeyNow == [version |-> version, deps |-> comp.dependencies_hash,
           mtime |-> input_file.mtime, bytes |-> input_file.bytes]

FreeSlots == {i \in 1..MaxGuards : guards[i] = NoGuard}

\* The slots only name the guards the callers hold: their order means nothing,
\* so the guards are kept in one order (by what they carry, free slots last).
KeyRank(k) ==
    ((k.version * (MaxMtime + 1) + k.mtime) * 2
        + (IF k.bytes = "bytes1" THEN 0 ELSE 1)) * 2
        + (IF k.deps = "deps1" THEN 0 ELSE 1)

GuardRank(g) ==
    IF g = NoGuard THEN 2 + KeyRank([NoKey EXCEPT !.version = MaxVersion + 1,
                                                  !.mtime = MaxMtime])
    ELSE IF g.made = NoKey THEN 0 ELSE 1 + KeyRank(g.made)

Ordered(g) ==
    IF \A i, j \in 1..MaxGuards : i < j => GuardRank(g[i]) <= GuardRank(g[j])
    THEN g
    ELSE
    LET p == CHOOSE q \in [1..MaxGuards -> 1..MaxGuards] :
                 /\ \A i, j \in 1..MaxGuards : i # j => q[i] # q[j]
                 /\ \A i, j \in 1..MaxGuards :
                        i < j => GuardRank(g[q[i]]) <= GuardRank(g[q[j]])
    IN  [i \in 1..MaxGuards |-> g[p[i]]]

FreeCount(g) == Cardinality({i \in 1..MaxGuards : g[i] = NoGuard})

\* CachedComputation::new(input_file, cache_file, dependencies)
CachedComputationNew(d) ==
    /\ comp' = [dependencies_hash |-> d]
    /\ c_last' = [op |-> "new", res |-> "none"]
    /\ UNCHANGED <<no_cache, version, input_file, cache_file, guards, lastFinal>>

\* needs_recompute(); a returned guard is kept in the first free slot
needs_recompute ==
    /\ comp # NoComp
    /\ LET r == NeedsRecompute(no_cache, comp.dependencies_hash, version,
                               input_file, cache_file)
       IN  /\ c_last' = [op |-> "needs_recompute", res |-> r.res]
           /\ IF r.res = "None"
              THEN UNCHANGED guards
              ELSE \E i \in FreeSlots :
                      /\ \A j \in FreeSlots : i <= j
                      /\ guards' = Ordered([guards EXCEPT ![i] =
                             [live |-> TRUE, new_cache_tag |-> r.tag,
                              made |-> IF r.tag = NoTag THEN NoKey ELSE KeyNow]])
    /\ UNCHANGED <<no_cache, version, input_file, cache_file, comp, lastFinal>>

\* a finalize that writes the cache file whatever the guard carries
finalizeAlways(i) ==
    /\ guards[i] # NoGuard
    /\ guards' = Ordered([guards EXCEPT ![i] = NoGuard])
    /\ cache_file' = guards[i].new_cache_tag
    /\ lastFinal' = guards[i].made
    /\ c_last' = [op |-> "finalize", res |-> "none"]
    /\ UNCHANGED <<no_cache, version, input_file, comp>>

\* ComputationGuard::finalize(self)
finalize(i) ==
    /\ guards[i] # NoGuard
    /\ guards' = Ordered([guards EXCEPT ![i] = NoGuard])
    /\ IF guards[i].new_cache_tag # NoTag
       THEN /\ cache_file' = guards[i].new_cache_tag
            /\ lastFinal' = guards[i].made
       ELSE UNCHANGED <<cache_file, lastFinal>>
    /\ c_last' = [op |-> "finalize", res |-> "none"]
    /\ UNCHANGED <<no_cache, version, input_file, comp>>

\* a guard goes out of scope without finalize
dropGuard(i) ==
    /\ guards[i] # NoGuard
    /\ guards' = Ordered([guards EXCEPT ![i] = NoGuard])
    /\ c_last' = [op |-> "dropGuard", res |-> "none"]
    /\ UNCHANGED <<no_cache, version, input_file, cache_file, comp, lastFinal>>

\* ---- the environment ---------------------------------------------------

\* the input file is (re)written; its modification time stays or advances
WriteInput(b, t) ==
    /\ t \in 0..MaxMtime
    /\ t >= input_file.mtime
    /\ [exists |-> TRUE, bytes |-> b, mtime |-> t] # input_file
    /\ input_file' = [exists |-> TRUE, bytes |-> b, mtime |-> t]
    /\ c_last' = [op |-> "env", res |-> "none"]
    /\ UNCHANGED <<no_cache, version, cache_file, comp, guards, lastFinal>>

\* the input file is removed: nothing of its content is left, and the clock
\* (the latest modification time handed out) stays where it was
RemoveInput ==
    /\ input_file.exists
    /\ input_file' = [input_file EXCEPT !.exists = FALSE, !.bytes = "none"]
    /\ c_last' = [op |-> "env", res |-> "none"]
    /\ UNCHANGED <<no_cache, version, cache_file, comp, guards, lastFinal>>

SetNoCache(b) ==
    /\ no_cache # b
    /\ no_cache' = b
    /\ c_last' = [op |-> "env", res |-> "none"]
    /\ UNCHANGED <<version, input_file, cache_file, comp, guards, lastFinal>>

\* a new release of the tool is installed
Upgrade ==
    /\ version < MaxVersion
    /\ version' = version + 1
    /\ c_last' = [op |-> "env", res |-> "none"]
    /\ UNCHANGED <<no_cache, input_file, cache_file, comp, guards, lastFinal>>

InitCache ==
    /\ no_cache \in BOOLEAN
    /\ version = 1
    /\ input_file = [exists |-> TRUE, bytes |-> "bytes1", mtime |-> 0]
    /\ cache_file \in {NoFile, Unreadable}
    /\ comp = NoComp
    /\ guards = [i \in 1..MaxGuards |-> NoGuard]
    /\ c_last = [op |-> "none", res |-> "none"]
    /\ lastFinal = NoKey

NextCache ==
    /\ \/ \E d \in Fingerprints : CachedComputationNew(d)
       \/ needs_recompute
       \/ \E i \in 1..MaxGuards : finalize(i)
       \/ \E i \in 1..MaxGuards : dropGuard(i)
       \/ \E b \in FileContents, t \in 0..MaxMtime : WriteInput(b, t)
       \/ RemoveInput
       \/ \E b \in BOOLEAN : SetNoCache(b)
       \/ Upgrade
    /\ UNCHANGED notCache

(***************************************************************************)
(* Properties of the computation cache.  c_last.op = "needs_recompute"     *)
(* holds exactly in the states right after a call of needs_recompute,      *)
(* where the environment is still the one the call saw.                    *)
(***************************************************************************)
Checked == c_last.op = "needs_recompute"

\* a guard was finalized, and bytes, fingerprint and version are as its check
\* saw them
SameBytesDepsVersion ==
    /\ lastFinal # NoKey
    /\ input_file.exists
    /\ input_file.bytes = lastFinal.bytes
    /\ comp.dependencies_hash = lastFinal.deps
    /\ version = lastFinal.version

C9_NoCacheBypass == (Checked /\ no_cache) => c_last.res = "Some"

\* C9 witness: NO_CACHE set, the cache file holds the matching tag
C9_Witness ==
    /\ Checked /\ no_cache /\ input_file.exists
    /\ cache_file = ExpectedTag(version, comp.dependencies_hash, input_file)
    /\ c_last.res = "Some"

\* C25: when the input file cannot be read (its metadata or its content) or
\* the cache file cannot be read, needs_recompute returns a guard: not an
\* error, and not None.
C25_FailureRecomputes ==
    (Checked /\ (~input_file.exists \/ cache_file = Unreadable))
        => c_last.res = "Some"

\* C25 witness: NO_CACHE unset, the input is readable and the cache file is
\* not; the check returned a guard
C25_Witness ==
    /\ Checked /\ ~no_cache /\ input_file.exists
    /\ cache_file = Unreadable
    /\ c_last.res = "Some"

\* C29: a step changes the cache file only when it is finalize on a guard that
\* carries a tag, and the file then holds that tag: dropping a guard, and
\* finalize on a guard without a tag (NO_CACHE set, or the check failed),
\* leave the cache file as it was.
C29_OnlyFinalizeWrites ==
    [][cache_file' # cache_file =>
        /\ c_last'.op = "finalize"
        /\ \E i \in 1..MaxGuards :
              /\ guards[i] # NoGuard /\ FreeCount(guards') = FreeCount(guards) + 1
              /\ guards[i].new_cache_tag # NoTag
              /\ guards[i].made # NoKey
              /\ cache_file' = guards[i].new_cache_tag]_vars

\* C29 witness: finalize has run on a guard returned under NO_CACHE and there
\* is still no cache file
C29_Witness ==
    /\ c_last.op = "finalize" /\ no_cache
    /\ cache_file = NoFile
    /\ lastFinal = NoKey

(***************************************************************************)
(* In-memory file system (src/src/io/fs/memory.rs).  Every operation of    *)
(* the FileSystem trait holds the root lock from its first to its last     *)
(* statement, and the drop of a writer holds the write lock of its slot,   *)
(* so each is one step.  Paths are lists of components, already resolved.  *)
(*                                                                         *)
(* The content slot of a file (Arc<RwLock<FileContent>>) is named by the   *)
(* path whose FileEntry holds it: a slot never moves to another entry.     *)
(* When the entry is removed or gets a new slot, the writers linked to the *)
(* old slot keep it alive, but nothing can reach it any more: their link   *)
(* becomes Detached.  An Arc<Vec<u8>> is immutable, so it is its bytes.    *)
(***************************************************************************)
FilePaths == { <<"d">>, <<"d", "a">> }   \* a root file named like the directory
DirPaths == { <<"d">> }
Objects == {"obj"}
Writers == {"w1", "w2"}          \* writer handles alive at the same time
Payload == [w1 |-> 1, w2 |-> 255]  \* the byte each writer's caller writes
Readers == {"reader"}            \* reader handles; they act on nothing shared

Absent == [kind |-> "Absent", data |-> <<>>, obj |-> "none"]      \* no FileEntry
Empty == [kind |-> "Empty", data |-> <<>>, obj |-> "none"]        \* FileContent::Empty
Data(bytes) == [kind |-> "Data", data |-> bytes, obj |-> "none"]  \* FileContent::Data
Object(o) == [kind |-> "Object", data |-> <<>>, obj |-> o]        \* FileContent::Object

Detached == <<>>                 \* the link to a slot that left the tree
NoWriter == [state |-> "none", data |-> <<>>, pos |-> 0, data_link |-> Detached]
NoReader == [state |-> "none", data |-> <<>>, pos |-> 0, path |-> <<>>,
             snap |-> <<>>, got |-> <<>>]

\* writers that stay linked to whatever entry their path names
DetachKeepsLink(writers, paths) == writers

\* the writers after the slots of these paths left the tree
Detach(writers, paths) ==
    [w \in Writers |->
        IF writers[w].state = "live" /\ writers[w].data_link \in paths
        THEN [writers[w] EXCEPT !.data_link = Detached]
        ELSE writers[w]]

\* the outputs of dropped writers that a file or a reader still holds
Held(done, files, readers) ==
    {d \in done :
        \/ \E f \in FilePaths : files[f] = Data(d)
        \/ \E r \in Readers : readers[r].state = "open" /\ readers[r].snap = d}

FreeWriter == CHOOSE w \in Writers : fs_writers[w].state = "none"
FreeReader == CHOOSE r \in Readers : fs_readers[r].state = "none"

\* file_parent
file_parent(path) == SubSeq(path, 1, Len(path) - 1)

\* get_directory / get_directory_mut succeed
DirExists(dir) == dir = <<>> \/ dir \in fs_dirs

\* get_file_entry: "Ok", or NotFound for a missing directory or entry
GetFileEntry(path) ==
    IF DirExists(file_parent(path)) /\ fs_files[path] # Absent
    THEN "Ok" ELSE "NotFound"

\* get_file_entry_or_create on a directory that exists: the files after it
GetFileEntryOrCreate(path) ==
    IF fs_files[path] = Absent THEN [fs_files EXCEPT ![path] = Empty] ELSE fs_files

\* create_dir_all(path)
create_dir_all(dir) ==
    /\ fs_dirs' = fs_dirs \cup {SubSeq(dir, 1, n) : n \in 1..Len(dir)}
    /\ UNCHANGED <<fs_files, fs_writers, fs_readers, fs_done, fs_removed>>

\* what create(path) answers
CreateResult(path) == IF DirExists(file_parent(path)) THEN "Ok" ELSE "NotFound"

\* create(path): the entry is looked up or made, the writer links to its
\* slot and starts with an empty cursor; the slot keeps what it holds
create(path) ==
    /\ \E w \in Writers : fs_writers[w].state = "none"
    /\ IF CreateResult(path) = "Ok"
       THEN /\ fs_files' = GetFileEntryOrCreate(path)
            /\ fs_writers' = [fs_writers EXCEPT ![FreeWriter] =
                   [state |-> "live", data |-> <<>>, pos |-> 0, data_link |-> path]]
            /\ fs_removed' = fs_removed \ {path}
       ELSE UNCHANGED <<fs_files, fs_writers, fs_removed>>
    /\ UNCHANGED <<fs_dirs, fs_readers, fs_done>>

\* WritableFile::write: into the writer's own cursor
write(w, byte) ==
    /\ fs_writers[w].state = "live"
    /\ fs_writers[w].pos < MaxLen
    /\ fs_writers' = [fs_writers EXCEPT
           ![w].data = CursorWrite(fs_writers[w].data, fs_writers[w].pos, <<byte>>),
           ![w].pos = fs_writers[w].pos + 1]
    /\ UNCHANGED <<fs_dirs, fs_files, fs_readers, fs_done, fs_removed>>

\* WritableFile::seek(SeekFrom::Start(pos)), to a position inside the data
seek(w, pos) ==
    /\ fs_writers[w].state = "live"
    /\ pos # fs_writers[w].pos
    /\ pos <= Len(fs_writers[w].data)
    /\ fs_writers' = [fs_writers EXCEPT ![w].pos = pos]
    /\ UNCHANGED <<fs_dirs, fs_files, fs_readers, fs_done, fs_removed>>

\* Drop for WritableFile: the bytes written become a new Arc<Vec<u8>>, which
\* is stored into the linked slot
dropWriter(w) ==
    /\ fs_writers[w].state = "live"
    /\ LET link == fs_writers[w].data_link
           data == fs_writers[w].data
           files == IF link = Detached THEN fs_files
                    ELSE [fs_files EXCEPT ![link] = Data(data)]
       IN  /\ fs_files' = files
           /\ fs_done' = Held(fs_done \cup {data}, files, fs_readers)
    /\ fs_writers' = [fs_writers EXCEPT ![w] = NoWriter]
    /\ UNCHANGED <<fs_dirs, fs_readers, fs_removed>>

\* what open(path) answers
OpenResult(path) ==
    IF GetFileEntry(path) # "Ok" THEN "NotFound"
    ELSE IF fs_files[path].kind # "Data" THEN "InvalidInput"
    ELSE "Ok"

\* open(path): a cursor over a clone of the Arc in the slot
open(path) ==
    /\ \E r \in Readers : fs_readers[r].state = "none"
    /\ IF OpenResult(path) = "Ok"
       THEN fs_readers' = [fs_readers EXCEPT ![FreeReader] =
                [state |-> "open", data |-> fs_files[path].data, pos |-> 0,
                 path |-> path, snap |-> fs_files[path].data, got |-> <<>>]]
       ELSE UNCHANGED fs_readers
    /\ UNCHANGED <<fs_dirs, fs_files, fs_writers, fs_done, fs_removed>>

\* a read that looks the bytes up under the path again
ReadSourceByPath(r) ==
    IF fs_files[fs_readers[r].path].kind = "Data"
    THEN fs_files[fs_readers[r].path].data ELSE <<>>

\* the bytes a reader handle reads from: the Arc its cursor owns
ReadSource(r) == fs_readers[r].data

\* one byte is read through a reader handle; at the end nothing is read
read(r) ==
    /\ fs_readers[r].state = "open"
    /\ fs_readers[r].pos < Len(fs_readers[r].snap)
    /\ fs_readers' = [fs_readers EXCEPT
           ![r].got = IF fs_readers[r].pos < Len(ReadSource(r))
                      THEN Append(fs_readers[r].got,
                                  ReadSource(r)[fs_readers[r].pos + 1])
                      ELSE fs_readers[r].got,
           ![r].pos = fs_readers[r].pos + 1]
    /\ UNCHANGED <<fs_dirs, fs_files, fs_writers, fs_done, fs_removed>>

\* the reader handle is dropped
closeReader(r) ==
    /\ fs_readers[r].state = "open"
    /\ fs_readers' = [fs_readers EXCEPT ![r] = NoReader]
    /\ fs_done' = Held(fs_done, fs_files, fs_readers')
    /\ UNCHANGED <<fs_dirs, fs_files, fs_writers, fs_removed>>

\* what copy(from, to) answers
CopyResult(from, to) ==
    IF GetFileEntry(from) # "Ok" THEN "NotFound"
    ELSE IF ~DirExists(file_parent(to)) THEN "NotFound"
    ELSE "Ok"

\* copy(from, to): the content of from is cloned into the slot of to
copy(from, to) ==
    /\ IF CopyResult(from, to) = "Ok"
       THEN /\ fs_files' = [fs_files EXCEPT ![to] = fs_files[from]]
            /\ fs_removed' = fs_removed \ {to}
       ELSE UNCHANGED <<fs_files, fs_removed>>
    /\ fs_done' = Held(fs_done, fs_files', fs_readers)
    /\ UNCHANGED <<fs_dirs, fs_writers, fs_readers>>

\* what remove_file(path) answers
RemoveFileResult(path) ==
    IF DirExists(file_parent(path)) /\ fs_files[path] # Absent
    THEN "Ok" ELSE "NotFound"

\* remove_file(path): the entry leaves the directory with its slot
remove_file(path) ==
    /\ IF RemoveFileResult(path) = "Ok"
       THEN /\ fs_files' = [fs_files EXCEPT ![path] = Absent]
            /\ fs_writers' = Detach(fs_writers, {path})
            /\ fs_removed' = fs_removed \cup {path}
       ELSE UNCHANGED <<fs_files, fs_writers, fs_removed>>
    /\ fs_done' = Held(fs_done, fs_files', fs_readers)
    /\ UNCHANGED <<fs_dirs, fs_readers>>

\* the paths below a directory
Below(dir) == {f \in FilePaths : Len(f) > Len(dir) /\ SubSeq(f, 1, Len(dir)) = dir}

\* remove_dir_all(path): the sub-directory leaves its parent with all it holds
remove_dir_all(dir) ==
    /\ IF DirExists(file_parent(dir)) /\ dir \in fs_dirs
       THEN /\ fs_dirs' = {d \in fs_dirs :
                              ~(Len(d) >= Len(dir) /\ SubSeq(d, 1, Len(dir)) = dir)}
            /\ fs_files' = [f \in FilePaths |->
                              IF f \in Below(dir) THEN Absent ELSE fs_files[f]]
            /\ fs_writers' = Detach(fs_writers, Below(dir))
       ELSE UNCHANGED <<fs_dirs, fs_files, fs_writers>>
    /\ fs_done' = Held(fs_done, fs_files', fs_readers)
    /\ UNCHANGED <<fs_readers, fs_removed>>

\* write_object(path, value): the entry gets a new slot holding the object
write_object(path, o) ==
    /\ IF DirExists(file_parent(path))
       THEN /\ fs_files' = [fs_files EXCEPT ![path] = Object(o)]
            /\ fs_writers' = Detach(fs_writers, {path})
            /\ fs_removed' = fs_removed \ {path}
       ELSE UNCHANGED <<fs_files, fs_writers, fs_removed>>
    /\ fs_done' = Held(fs_done, fs_files', fs_readers)
    /\ UNCHANGED <<fs_dirs, fs_readers>>

\* str::from_utf8 accepts the bytes from position i on (well-formed UTF-8)
RECURSIVE Utf8ValidFrom(_, _)
Utf8ValidFrom(b, i) ==
    LET n == Len(b) - i + 1
        In(k, lo, hi) == k <= n /\ b[i + k - 1] >= lo /\ b[i + k - 1] <= hi
        c == b[i]
        used == IF c <= 127 THEN 1
                ELSE IF In(1, 194, 223) /\ In(2, 128, 191) THEN 2
                ELSE IF In(1, 224, 224) /\ In(2, 160, 191) /\ In(3, 128, 191) THEN 3
                ELSE IF In(1, 225, 236) /\ In(2, 128, 191) /\ In(3, 128, 191) THEN 3
                ELSE IF In(1, 237, 237) /\ In(2, 128, 159) /\ In(3, 128, 191) THEN 3
                ELSE IF In(1, 238, 239) /\ In(2, 128, 191) /\ In(3, 128, 191) THEN 3
                ELSE IF In(1, 240, 240) /\ In(2, 144, 191) /\ In(3, 128, 191)
                        /\ In(4, 128, 191) THEN 4
                ELSE IF In(1, 241, 243) /\ In(2, 128, 191) /\ In(3, 128, 191)
                        /\ In(4, 128, 191) THEN 4
                ELSE IF In(1, 244, 244) /\ In(2, 128, 143) /\ In(3, 128, 191)
                        /\ In(4, 128, 191) THEN 4
                ELSE 0
    IN  IF i > Len(b) THEN TRUE
        ELSE IF used = 0 THEN FALSE
        ELSE Utf8ValidFrom(b, i + used)

\* str::from_utf8(bytes).is_ok()
Utf8Valid(b) == Utf8ValidFrom(b, 1)

\* exists(path): a sub-directory or a file of that name in the parent
Exists(path) ==
    /\ Len(path) >= 1
    /\ DirExists(file_parent(path))
    /\ \/ path \in fs_dirs
       \/ path \in FilePaths /\ fs_files[path] # Absent

\* the answer of a read-only operation: its result kind and its value
Answer(res, val) == [res |-> res, val |-> val]

\* a read_to_string that hands the bytes out without validating them
ReadToStringLossy(path) ==
    IF GetFileEntry(path) # "Ok" THEN Answer("NotFound", <<>>)
    ELSE IF fs_files[path].kind # "Data" THEN Answer("InvalidInput", <<>>)
    ELSE Answer("Ok", fs_files[path].data)

\* read_to_string(path): the bytes of a binary file, as a string
ReadToString(path) ==
    IF GetFileEntry(path) # "Ok" THEN Answer("NotFound", <<>>)
    ELSE IF fs_files[path].kind # "Data" THEN Answer("InvalidInput", <<>>)
    ELSE IF ~Utf8Valid(fs_files[path].data) THEN Answer("InvalidInput", <<>>)
    ELSE Answer("Ok", fs_files[path].data)

\* file_size(path): the length of a binary file
FileSize(path) ==
    IF GetFileEntry(path) # "Ok" THEN Answer("NotFound", 0)
    ELSE IF fs_files[path].kind # "Data" THEN Answer("InvalidInput", 0)
    ELSE Answer("Ok", Len(fs_files[path].data))

\* the bytes the cursor returned by a successful open(path) reads
OpenBytes(path) == fs_files[path].data

InitFs ==
    /\ fs_dirs = {}
    /\ fs_files = [f \in FilePaths |-> Absent]
    /\ fs_writers = [w \in Writers |-> NoWriter]
    /\ fs_readers = [r \in Readers |-> NoReader]
    /\ fs_done = {}
    /\ fs_removed = {}

NextFs ==
    /\ \/ \E dir \in DirPaths : create_dir_all(dir)
       \/ \E path \in FilePaths : create(path)
       \/ \E w \in Writers : write(w, Payload[w])
       \/ \E w \in Writers, pos \in 0..MaxLen : seek(w, pos)
       \/ \E w \in Writers : dropWriter(w)
       \/ \E path \in FilePaths : open(path)
       \/ \E r \in Readers : read(r)
       \/ \E r \in Readers : closeReader(r)
       \/ \E from \in FilePaths, to \in FilePaths : copy(from, to)
       \/ \E path \in FilePaths : remove_file(path)
       \/ \E dir \in DirPaths : remove_dir_all(dir)
       \/ \E path \in FilePaths, o \in Objects : write_object(path, o)
    /\ UNCHANGED notFs

(***************************************************************************)
(* Properties of the in-memory file system.                                *)
(***************************************************************************)
OpenReaders == {r \in Readers : fs_readers[r].state = "open"}

\* C10: a reader handle returned by open(p) yields, for its whole lifetime,
\* exactly the complete bytes p held when it was opened, the full output of
\* one finished writer, whatever happens to p while the handle is held; no
\* reader observes the partial bytes of a writer that was not yet dropped.
C10_SnapshotConsistency ==
    \A r \in OpenReaders :
        /\ ReadSource(r) = fs_readers[r].snap
        /\ fs_readers[r].got = SubSeq(fs_readers[r].snap, 1, fs_readers[r].pos)
        /\ fs_readers[r].snap \in fs_done

\* C10 witness: a reader has read its whole snapshot after the path it was
\* opened on was rewritten with other bytes by a second writer
C10_Witness ==
    \E r \in OpenReaders :
        /\ fs_readers[r].snap # <<>>
        /\ fs_readers[r].got = fs_readers[r].snap
        /\ fs_files[fs_readers[r].path].kind = "Data"
        /\ fs_files[fs_readers[r].path].data # fs_readers[r].snap

\* the step in which writer w, still linked to the entry of path p, is
\* dropped after it received the bytes b
DropsLinked(w, p, b) ==
    /\ fs_writers[w].state = "live"
    /\ fs_writers'[w].state = "none"
    /\ fs_writers[w].data_link = p
    /\ fs_writers[w].data = b

C11_Step ==
    \A w \in Writers, p \in FilePaths :
        \A b \in {fs_writers[w].data} :
            DropsLinked(w, p, b) =>
                /\ OpenResult(p)' = "Ok"
                /\ OpenBytes(p)' = b
                /\ ReadToString(p)' = IF Utf8Valid(b) THEN Answer("Ok", b)
                                      ELSE Answer("InvalidInput", <<>>)
                /\ FileSize(p)' = Answer("Ok", Len(b))

C13_RemovedStaysRemoved ==
    \A p \in fs_removed : ~Exists(p) /\ OpenResult(p) = "NotFound"

\* C13, amended: from a successful remove_file(p) until a later create, copy
\* or write_object targets p, open(p) fails with NotFound and exists(p) is
\* false unless a directory named p exists; the drop of a writer created
\* before the removal does not bring p back.
C13_RemovedFileStaysRemoved ==
    \A p \in fs_removed :
        /\ OpenResult(p) = "NotFound"
        /\ fs_files[p] = Absent
        /\ Exists(p) => p \in fs_dirs

\* C13 witness: the file is removed and gone while a writer created on it
\* before the removal is still alive, with bytes to store at its drop
C13_Witness ==
    \E p \in fs_removed :
        /\ ~Exists(p)
        /\ OpenResult(p) = "NotFound"
        /\ fs_removed = {p}
        /\ \E w \in Writers :
               /\ fs_writers[w].state = "live"
               /\ fs_writers[w].data_link = Detached
               /\ fs_writers[w].data # <<>>
        /\ \A f \in FilePaths \ {p} : fs_files[f] = Absent

(***************************************************************************)
(* Root::resolve_path (src/src/io/fs/memory.rs).  A path is the list of    *)
(* the components std::path::Path::components() yields for it: a prefix    *)
(* only in front, the root only in front or after the prefix, "." only in  *)
(* front of a path without root, then normal components and "..".          *)
(***************************************************************************)
Normal(name) == [kind |-> "Normal", name |-> name]
ParentDir == [kind |-> "ParentDir", name |-> ".."]
CurDir == [kind |-> "CurDir", name |-> "."]
RootDir == [kind |-> "RootDir", name |-> "/"]
Prefix == [kind |-> "Prefix", name |-> "C:"]
Names == {"folder", "folder2"}
ComponentSet == {Normal(n) : n \in Names} \cup {ParentDir, CurDir, RootDir, Prefix}

\* the lists Path::components() can yield
IsComponents(c) ==
    \A i \in 1..Len(c) :
        /\ c[i].kind = "Prefix" => i = 1
        /\ c[i].kind = "RootDir" => (i = 1 \/ (i = 2 /\ c[1].kind = "Prefix"))
        /\ c[i].kind = "CurDir" => i = 1

PathsOfLen(n) == {c \in [1..n -> ComponentSet] : IsComponents(c)}
Paths == UNION {PathsOfLen(n) : n \in 1..MaxComponents}

\* a resolve_path in which ".." cancels nothing
RECURSIVE ResolveFromNoPop(_, _, _)
ResolveFromNoPop(c, i, part) ==
    IF i > Len(c) THEN Answer("Ok", part)
    ELSE IF c[i].kind = "Normal" THEN ResolveFromNoPop(c, i + 1, Append(part, c[i].name))
    ELSE IF c[i].kind = "Prefix" THEN Answer("NotFound", <<>>)
    ELSE ResolveFromNoPop(c, i + 1, part)

\* the loop of resolve_path from component i on, with part as built so far
RECURSIVE ResolveFrom(_, _, _)
ResolveFrom(c, i, part) ==
    IF i > Len(c) THEN Answer("Ok", part)
    ELSE IF c[i].kind = "Normal" THEN ResolveFrom(c, i + 1, Append(part, c[i].name))
    ELSE IF c[i].kind = "ParentDir"
         THEN IF part = <<>> THEN Answer("NotFound", <<>>)
              ELSE ResolveFrom(c, i + 1, SubSeq(part, 1, Len(part) - 1))
    ELSE IF c[i].kind = "CurDir" THEN ResolveFrom(c, i + 1, part)
    ELSE IF c[i].kind = "RootDir" THEN ResolveFrom(c, i + 1, <<>>)
    ELSE Answer("NotFound", <<>>)

\* Root::resolve_path(path)
resolve_path(c) == ResolveFrom(c, 1, <<>>)

\* a call of resolve_path
ResolvePath(c) ==
    /\ rp_path' = c
    /\ rp_result' = resolve_path(c)

InitPath ==
    /\ rp_path = <<>>
    /\ rp_result = Answer("Ok", <<>>)

NextPath ==
    /\ \E c \in Paths : ResolvePath(c)
    /\ UNCHANGED notPath

(***************************************************************************)
(* Properties of resolve_path.  The expected answer is computed from the   *)
(* right: a ".." waits for the nearest normal component before it.         *)
(***************************************************************************)
\* the ".." of c[i..] that are still waiting in front of position i
RECURSIVE Waiting(_, _)
Waiting(c, i) ==
    IF i > Len(c) THEN 0
    ELSE IF c[i].kind = "ParentDir" THEN Waiting(c, i + 1) + 1
    ELSE IF c[i].kind = "Normal" /\ Waiting(c, i + 1) > 0 THEN Waiting(c, i + 1) - 1
    ELSE Waiting(c, i + 1)

\* the normal components of c[i..] that no ".." cancels
RECURSIVE Remaining(_, _)
Remaining(c, i) ==
    IF i > Len(c) THEN <<>>
    ELSE IF c[i].kind = "Normal" /\ Waiting(c, i + 1) = 0
         THEN <<c[i].name>> \o Remaining(c, i + 1)
    ELSE Remaining(c, i + 1)

Uncancelled(c) == Waiting(c, 1) > 0
HasPrefix(c) == \E i \in 1..Len(c) : c[i].kind = "Prefix"

\* C12 as stated: the result is the list of the normal components that no
\* ".." cancels, and an error exactly when a ".." has nothing to cancel.
C12_ResolvePath ==
    rp_result = IF Uncancelled(rp_path) THEN Answer("NotFound", <<>>)
                ELSE Answer("Ok", Remaining(rp_path, 1))

\* C12, amended: resolve_path returns an error exactly when a ".." has no
\* preceding component to cancel or the path has a prefix component, and
\* otherwise the list of its normal components with every "." removed and
\* every ".." cancelling the nearest preceding remaining component.
C12_ResolvePathOrPrefix ==
    rp_result = IF Uncancelled(rp_path) \/ HasPrefix(rp_path)
                THEN Answer("NotFound", <<>>)
                ELSE Answer("Ok", Remaining(rp_path, 1))

\* C12 witness: folder/folder2/../folder was resolved to [folder, folder]
C12_Witness ==
    /\ rp_path = <<Normal("folder"), Normal("folder2"), ParentDir, Normal("folder")>>
    /\ rp_result = Answer("Ok", <<"folder", "folder">>)

(***************************************************************************)
(* HeightMap serialization (src/src/io/heightmap.rs).  Vec2D (vec2d.rs) is *)
(* not in the source tree: it is the flat contiguous buffer of the         *)
(* specification, written as width (u64), height (u64) and the cells in    *)
(* buffer order.                                                           *)
(***************************************************************************)
Vec2D(w, h, data) == [width |-> w, height |-> h, data |-> data]

\* the cell (i, j) of a grid, 0-based
At(grid, i, j) == grid.data[j * grid.width + i + 1]

Vec2DToBytes(g) ==
    LET RECURSIVE Cells(_)
        Cells(k) == IF k > Len(g.data) THEN <<>>
                    ELSE F64ToBytes(g.data[k]) \o Cells(k + 1)
    IN  U64ToBytes(g.width) \o U64ToBytes(g.height) \o Cells(1)

\* Vec2D::from_bytes on the bytes from offset off on
Vec2DFromBytes(b, off) ==
    IF Len(b) < off + 16 THEN Answer("UnexpectedEof", Vec2D(0, 0, <<>>))
    ELSE LET w == U64FromBytes(Slice(b, off, 8))
             h == U64FromBytes(Slice(b, off + 8, 8))
         IN  IF Len(b) < off + 16 + 8 * w * h
             THEN Answer("UnexpectedEof", Vec2D(0, 0, <<>>))
             ELSE Answer("Ok", Vec2D(w, h,
                      [k \in 1..(w * h) |->
                          F64FromBytes(Slice(b, off + 16 + 8 * (k - 1), 8))]))

\* == on Vec2D<f64>
Vec2DEq(g1, g2) ==
    /\ g1.width = g2.width
    /\ g1.height = g2.height
    /\ Len(g1.data) = Len(g2.data)
    /\ \A k \in 1..Len(g1.data) : F64Eq(g1.data[k], g2.data[k])

HeightMap(xoffset, yoffset, scale, grid) ==
    [xoffset |-> xoffset, yoffset |-> yoffset, scale |-> scale, grid |-> grid]

NoHeightMap == HeightMap(0, 0, 0, Vec2D(0, 0, <<>>))
NotRead == Answer("NotRead", NoHeightMap)

\* HeightMap::to_bytes
HeightMapToBytes(h) ==
    F64ToBytes(h.xoffset) \o F64ToBytes(h.yoffset) \o F64ToBytes(h.scale)
        \o Vec2DToBytes(h.grid)

\* a from_bytes that reads the two offsets in the other order
HeightMapFromBytesSwapped(b) ==
    IF Len(b) < 24 THEN Answer("UnexpectedEof", NoHeightMap)
    ELSE IF Vec2DFromBytes(b, 24).res # "Ok"
         THEN Answer(Vec2DFromBytes(b, 24).res, NoHeightMap)
    ELSE Answer("Ok", HeightMap(F64FromBytes(Slice(b, 8, 8)),
                                F64FromBytes(Slice(b, 0, 8)),
                                F64FromBytes(Slice(b, 16, 8)),
                                Vec2DFromBytes(b, 24).val))

\* HeightMap::from_bytes
HeightMapFromBytes(b) ==
    IF Len(b) < 24 THEN Answer("UnexpectedEof", NoHeightMap)
    ELSE IF Vec2DFromBytes(b, 24).res # "Ok"
         THEN Answer(Vec2DFromBytes(b, 24).res, NoHeightMap)
    ELSE Answer("Ok", HeightMap(F64FromBytes(Slice(b, 0, 8)),
                                F64FromBytes(Slice(b, 8, 8)),
                                F64FromBytes(Slice(b, 16, 8)),
                                Vec2DFromBytes(b, 24).val))

\* == on HeightMap (derived PartialEq)
HeightMapEq(h1, h2) ==
    /\ F64Eq(h1.xoffset, h2.xoffset)
    /\ F64Eq(h1.yoffset, h2.yoffset)
    /\ F64Eq(h1.scale, h2.scale)
    /\ Vec2DEq(h1.grid, h2.grid)

\* the heightmaps handed to to_bytes
HmFields == {3, -5, NaN}
HmCells == {1, NaN}
Grids == UNION {{Vec2D(w, h, d) : d \in [1..(w * h) -> HmCells]} :
                   w \in 0..MaxDim, h \in 0..MaxDim}
HeightMaps == {HeightMap(x, y, sc, g) :
                  x \in HmFields, y \in HmFields, sc \in HmFields, g \in Grids}

\* heightmap.to_bytes(&mut bytes)
ToBytes(h) ==
    /\ hm_bytes = <<>>
    /\ hm_map' = h
    /\ hm_bytes' = HeightMapToBytes(h)
    /\ hm_read' = NotRead

\* HeightMap::from_bytes(&mut bytes.as_slice())
FromBytes ==
    /\ hm_read = NotRead
    /\ hm_bytes # <<>>
    /\ hm_read' = HeightMapFromBytes(hm_bytes)
    /\ UNCHANGED <<hm_map, hm_bytes>>

InitHmap ==
    /\ hm_map = NoHeightMap
    /\ hm_bytes = <<>>
    /\ hm_read = NotRead

NextHmap ==
    /\ \/ \E h \in HeightMaps : ToBytes(h)
       \/ FromBytes
    /\ UNCHANGED notHmap

(***************************************************************************)
(* Properties of the HeightMap serialization.                              *)
(***************************************************************************)
HasNaN(h) ==
    \/ h.xoffset = NaN \/ h.yoffset = NaN \/ h.scale = NaN
    \/ \E k \in 1..Len(h.grid.data) : h.grid.data[k] = NaN

\* the map read back has the cell of every index (i, j) of the map written
SameCells(h1, h2) ==
    /\ h2.grid.width = h1.grid.width
    /\ h2.grid.height = h1.grid.height
    /\ \A i \in 0..(h1.grid.width - 1), j \in 0..(h1.grid.height - 1) :
           F64Eq(At(h1.grid, i, j), At(h2.grid, i, j))

Point(x, y, z, c) == [x |-> x, y |-> y, z |-> z, classification |-> c]
water_class == 9                     \* config.water_class
CellSizes == {1, 2}                  \* 2.0 * scalefactor
PointSet == {Point(x, y, 10 + 2 * x + y, c) : x \in {0, 3, 8}, y \in {0, 5},
                                              c \in {1, 2, water_class}}
PointClouds == UNION {[1..n -> PointSet] : n \in 1..MaxPoints}

IsNaN(v) == v = NaN
Cells(w, h) == (0..w) \X (0..h)

\* the cells in the order of "for x in 0..w + 1 { for y in 0..h + 1"
CellOrder(w, h) == [k \in 1..((w + 1) * (h + 1)) |->
                       <<(k - 1) \div (h + 1), (k - 1) % (h + 1)>>]

\* first pass: the extent of all points, then xmin and ymin floored to a
\* multiple of the cell size, then w and h
FlooredMin(points, cell) ==
    [x |-> 2 * cell * (SetMin({points[k].x : k \in 1..Len(points)}) \div (2 * cell)),
     y |-> 2 * cell * (SetMin({points[k].y : k \in 1..Len(points)}) \div (2 * cell))]

\* ((max - min).ceil() / 2.0 / scalefactor) as usize
GridSpan(max, min, cell) == ((max - min + 1) \div 2) \div cell

\* ((v - min).floor() / 2.0 / scalefactor) as usize
CellIndex(v, min, cell) == ((v - min) \div 2) \div cell

IsGround(pt) == pt.classification = 2 \/ pt.classification = water_class

\* second pass: the sums and counts of the ground and water points
RECURSIVE Accumulate(_, _, _, _, _)
Accumulate(list, points, k, min, cell) ==
    IF k > Len(points) THEN list
    ELSE IF ~IsGround(points[k]) THEN Accumulate(list, points, k + 1, min, cell)
    ELSE LET idx == <<CellIndex(points[k].x, min.x, cell),
                      CellIndex(points[k].y, min.y, cell)>>
         IN  Accumulate([list EXCEPT ![idx] = [sum |-> @.sum + points[k].z,
                                               count |-> @.count + 1]],
                        points, k + 1, min, cell)

\* avg_alt from list_alt
Average(list, w, h) ==
    [c \in Cells(w, h) |->
        IF list[c].count > 0 THEN list[c].sum \div list[c].count ELSE NaN]

\* the four while loops: the nearest cell that is not NaN, or the border
Left(avg, x, y) ==
    SetMax({i \in 0..x : i = 0 \/ ~IsNaN(avg[<<i, y>>])})
Right(avg, x, y, w) ==
    SetMin({i \in x..w : i = w \/ ~IsNaN(avg[<<i, y>>])})
Below2(avg, x, y) ==
    SetMax({j \in 0..y : j = 0 \/ ~IsNaN(avg[<<x, j>>])})
Above(avg, x, y, h) ==
    SetMin({j \in y..h : j = h \/ ~IsNaN(avg[<<x, j>>])})

\* the value the first interpolation gives the NaN cell (x, y), or NaN
CrossValue(avg, x, y, w, h) ==
    LET i1 == Left(avg, x, y)
        i2 == Right(avg, x, y, w)
        j1 == Below2(avg, x, y)
        j2 == Above(avg, x, y, h)
        val1 == IF ~IsNaN(avg[<<i1, y>>]) /\ ~IsNaN(avg[<<i2, y>>])
                THEN ((i2 - x) * avg[<<i1, y>>] + (x - i1) * avg[<<i2, y>>])
                         \div (i2 - i1)
                ELSE NaN
        val2 == IF ~IsNaN(avg[<<x, j1>>]) /\ ~IsNaN(avg[<<x, j2>>])
                THEN ((j2 - y) * avg[<<x, j1>>] + (y - j1) * avg[<<x, j2>>])
                         \div (j2 - j1)
                ELSE NaN
    IN  IF ~IsNaN(val1) /\ ~IsNaN(val2) THEN (val1 + val2) \div 2
        ELSE IF ~IsNaN(val1) THEN val1
        ELSE val2

\* the first interpolation loop, in place, from the k-th cell on
RECURSIVE CrossFill(_, _, _, _)
CrossFill(avg, k, w, h) ==
    IF k > (w + 1) * (h + 1) THEN avg
    ELSE LET c == CellOrder(w, h)[k]
         IN  IF IsNaN(avg[c])
             THEN CrossFill([avg EXCEPT ![c] = CrossValue(avg, c[1], c[2], w, h)],
                            k + 1, w, h)
             ELSE CrossFill(avg, k + 1, w, h)

\* the cells of the 3 x 3 block around (x, y) that are in the grid and hold a
\* value
Valued(avg, x, y, w, h) ==
    {c \in Cells(w, h) : /\ c[1] \in (x - 1)..(x + 1)
                         /\ c[2] \in (y - 1)..(y + 1)
                         /\ ~IsNaN(avg[c])}

RECURSIVE SumOver(_, _)
SumOver(avg, S) ==
    IF S = {} THEN 0
    ELSE LET c == CHOOSE d \in S : TRUE IN avg[c] + SumOver(avg, S \ {c})

\* a second interpolation that fills nothing
NeighbourFillNothing(avg, k, w, h) == avg

\* the second interpolation loop, in place, from the k-th cell on
RECURSIVE NeighbourFill(_, _, _, _)
NeighbourFill(avg, k, w, h) ==
    IF k > (w + 1) * (h + 1) THEN avg
    ELSE LET c == CellOrder(w, h)[k]
             near == Valued(avg, c[1], c[2], w, h)
         IN  IF IsNaN(avg[c]) /\ near # {}
             THEN NeighbourFill([avg EXCEPT ![c] = SumOver(avg, near)
                                                       \div Cardinality(near)],
                                k + 1, w, h)
             ELSE NeighbourFill(avg, k + 1, w, h)

\* the carry of column x upwards from row y on: a NaN takes the value below
RECURSIVE CarryUp(_, _, _, _)
CarryUp(avg, x, y, h) ==
    IF y > h THEN avg
    ELSE IF IsNaN(avg[<<x, y>>])
         THEN CarryUp([avg EXCEPT ![<<x, y>>] = avg[<<x, y - 1>>]], x, y + 1, h)
         ELSE CarryUp(avg, x, y + 1, h)

\* the carry of column x downwards, yy counting from 1: a NaN takes the
\* value above
RECURSIVE CarryDown(_, _, _, _)
CarryDown(avg, x, yy, h) ==
    IF yy > h THEN avg
    ELSE IF IsNaN(avg[<<x, h - yy>>])
         THEN CarryDown([avg EXCEPT ![<<x, h - yy>>] = avg[<<x, h - yy + 1>>]],
                        x, yy + 1, h)
         ELSE CarryDown(avg, x, yy + 1, h)

\* the column loop, from column x on
RECURSIVE ColumnCarry(_, _, _, _)
ColumnCarry(avg, x, w, h) ==
    IF x > w THEN avg
    ELSE ColumnCarry(CarryDown(CarryUp(avg, x, 1, h), x, 1, h), x + 1, w, h)

\* avg_alt as the Vec2D of the heightmap
GridOf(avg, w, h) ==
    Vec2D(w + 1, h + 1,
          [k \in 1..((w + 1) * (h + 1)) |-> avg[<<(k - 1) % (w + 1), (k - 1) \div (w + 1)>>]])

NoReturn == Answer("NoReturn", NoHeightMap)
NoGrid == [c \in Cells(0, 0) |-> NaN]
NoList == [c \in Cells(0, 0) |-> [sum |-> 0, count |-> 0]]

\* the call, with the first pass over the file
ReadExtent(points, cell) ==
    /\ xh_pc = "start"
    /\ xh_points' = points
    /\ xh_cell' = cell
    /\ xh_min' = FlooredMin(points, cell)
    /\ xh_w' = GridSpan(SetMax({points[k].x : k \in 1..Len(points)}),
                        FlooredMin(points, cell).x, cell)
    /\ xh_h' = GridSpan(SetMax({points[k].y : k \in 1..Len(points)}),
                        FlooredMin(points, cell).y, cell)
    /\ xh_pc' = "sum"
    /\ UNCHANGED <<xh_list, xh_avg, xh_ret>>

\* the second pass over the file and the averages
SumAndAverage ==
    /\ xh_pc = "sum"
    /\ xh_list' = Accumulate([c \in Cells(xh_w + 1, xh_h + 1) |->
                                 [sum |-> 0, count |-> 0]],
                             xh_points, 1, xh_min, xh_cell)
    /\ xh_avg' = Average(xh_list', xh_w, xh_h)
    /\ xh_pc' = "cross"
    /\ UNCHANGED <<xh_points, xh_cell, xh_min, xh_w, xh_h, xh_ret>>

\* the first interpolation
CrossScan ==
    /\ xh_pc = "cross"
    /\ xh_avg' = CrossFill(xh_avg, 1, xh_w, xh_h)
    /\ xh_pc' = "near"
    /\ UNCHANGED <<xh_points, xh_cell, xh_min, xh_w, xh_h, xh_list, xh_ret>>

\* the second interpolation
Neighbourhood ==
    /\ xh_pc = "near"
    /\ xh_avg' = NeighbourFill(xh_avg, 1, xh_w, xh_h)
    /\ xh_pc' = "carry"
    /\ UNCHANGED <<xh_points, xh_cell, xh_min, xh_w, xh_h, xh_list, xh_ret>>

\* the column carry and xmin += 1.0, ymin += 1.0
Carry ==
    /\ xh_pc = "carry"
    /\ xh_avg' = ColumnCarry(xh_avg, 0, xh_w, xh_h)
    /\ xh_min' = [x |-> xh_min.x + 2, y |-> xh_min.y + 2]
    /\ xh_pc' = "check"
    /\ UNCHANGED <<xh_points, xh_cell, xh_w, xh_h, xh_list, xh_ret>>

\* the check for NaNs and the return
Return ==
    /\ xh_pc = "check"
    /\ xh_ret' = IF \E c \in Cells(xh_w, xh_h) : IsNaN(xh_avg[c])
                 THEN Answer("Panic", NoHeightMap)
                 ELSE Answer("Ok", HeightMap(xh_min.x, xh_min.y, xh_cell,
                                             GridOf(xh_avg, xh_w, xh_h)))
    /\ xh_pc' = "done"
    /\ UNCHANGED <<xh_points, xh_cell, xh_min, xh_w, xh_h, xh_list, xh_avg>>

InitSynth ==
    /\ xh_pc = "start"
    /\ xh_points = <<>>
    /\ xh_cell = 1
    /\ xh_min = [x |-> 0, y |-> 0]
    /\ xh_w = 0
    /\ xh_h = 0
    /\ xh_list = NoList
    /\ xh_avg = NoGrid
    /\ xh_ret = NoReturn

NextSynth ==
    /\ \/ \E points \in PointClouds, cell \in CellSizes : ReadExtent(points, cell)
       \/ SumAndAverage
       \/ CrossScan
       \/ Neighbourhood
       \/ Carry
       \/ Return
    /\ UNCHANGED notSynth

(***************************************************************************)
(* Properties of xyz2heightmap.                                            *)
(***************************************************************************)
HasGround(points) == \E k \in 1..Len(points) : IsGround(points[k])

\* C15: over an input with at least one ground or water point the call
\* completes and returns a heightmap without a NaN cell.
C15_NoNaN ==
    (xh_pc = "done" /\ HasGround(xh_points)) =>
        /\ xh_ret.res = "Ok"
        /\ \A k \in 1..Len(xh_ret.val.grid.data) : ~IsNaN(xh_ret.val.grid.data[k])

\* what holds instead: the call returns no heightmap with a NaN cell, and
\* it panics exactly when a cell is still NaN after the three fills
C15_NoNaNReturned ==
    xh_pc = "done" =>
        /\ xh_ret.res = "Ok" =>
               \A k \in 1..Len(xh_ret.val.grid.data) : ~IsNaN(xh_ret.val.grid.data[k])
        /\ xh_ret.res = "Panic" <=> \E c \in Cells(xh_w, xh_h) : IsNaN(xh_avg[c])

\* C16: the heightmap returned for a non-empty input and a positive
\* scalefactor has scale > 0, width >= 2 and height >= 2.
C16_ScaleAndSize ==
    (xh_pc = "done" /\ xh_ret.res = "Ok") =>
        /\ xh_ret.val.scale > 0
        /\ xh_ret.val.grid.width >= 2
        /\ xh_ret.val.grid.height >= 2

\* what holds instead: scale > 0, width = w + 1 >= 1 and height = h + 1 >= 1
C16_ScaleAndSizeAsBuilt ==
    (xh_pc = "done" /\ xh_ret.res = "Ok") =>
        /\ xh_ret.val.scale > 0
        /\ xh_ret.val.grid.width = xh_w + 1
        /\ xh_ret.val.grid.height = xh_h + 1
        /\ Len(xh_ret.val.grid.data) = (xh_w + 1) * (xh_h + 1)

(***************************************************************************)
(* polylinebindxfcrop (src/src/crop.rs): the loop over the points of one   *)
(* input polyline.  Every polyline starts the loop with fresh locals and   *)
(* shares only output_lines with the others.                               *)
(***************************************************************************)
Point2(x, y) == [x |-> x, y |-> y]
CropBox == [minx |-> 1, miny |-> 1, maxx |-> 2, maxy |-> 2]
CropPoints == {Point2(1, 1), Point2(2, 2), Point2(0, 1), Point2(3, 2),
               Point2(2, 0), Point2(0, 3)}
CropLines == UNION {[1..n -> CropPoints] : n \in 1..MaxVertices}

\* valx >= minx && valx <= maxx && valy >= miny && valy <= maxy
InBox(pt) ==
    /\ pt.x >= CropBox.minx /\ pt.x <= CropBox.maxx
    /\ pt.y >= CropBox.miny /\ pt.y <= CropBox.maxy

\* an anchor test that accepts every point
BeyondMinOrMax(pt) == TRUE

\* valx < minx || valy < miny
BeyondMin(pt) == pt.x < CropBox.minx \/ pt.y < CropBox.miny

\* the loop is entered for a polyline p
CropBegin(p) ==
    /\ cr_pc = "idle"
    /\ cr_p' = p
    /\ cr_next' = 0
    /\ cr_pre' = <<>>
    /\ cr_pointcount' = 0
    /\ cr_poly' = <<>>
    /\ cr_pc' = "loop"
    /\ UNCHANGED cr_output

\* one turn of "for point in p"
CropPoint ==
    /\ cr_pc = "loop"
    /\ cr_next < Len(cr_p)
    /\ LET point == cr_p[cr_next + 1]
           anchor == cr_pre # <<>> /\ cr_pointcount = 0 /\ BeyondMin(cr_pre[1])
       IN  /\ IF InBox(point)
              THEN /\ cr_poly' = IF anchor THEN cr_poly \o cr_pre \o <<point>>
                                 ELSE Append(cr_poly, point)
                   /\ cr_pointcount' = IF anchor THEN cr_pointcount + 2
                                       ELSE cr_pointcount + 1
                   /\ UNCHANGED cr_output
              ELSE IF cr_pointcount > 1
              THEN /\ cr_output' = Append(cr_output,
                                          IF BeyondMin(point) THEN Append(cr_poly, point)
                                          ELSE cr_poly)
                   /\ cr_poly' = <<>>
                   /\ cr_pointcount' = 0
              ELSE UNCHANGED <<cr_poly, cr_pointcount, cr_output>>
           /\ cr_pre' = <<point>>
    /\ cr_next' = cr_next + 1
    /\ UNCHANGED <<cr_pc, cr_p>>

\* after the loop: the line in progress is pushed when it has two points
CropEnd ==
    /\ cr_pc = "loop"
    /\ cr_next = Len(cr_p)
    /\ cr_output' = IF cr_pointcount > 1 THEN Append(cr_output, cr_poly)
                    ELSE cr_output
    /\ cr_pc' = "done"
    /\ UNCHANGED <<cr_p, cr_next, cr_pre, cr_pointcount, cr_poly>>

InitCrop ==
    /\ cr_pc = "idle"
    /\ cr_p = <<>>
    /\ cr_next = 0
    /\ cr_pre = <<>>
    /\ cr_pointcount = 0
    /\ cr_poly = <<>>
    /\ cr_output = <<>>

NextCrop ==
    /\ \/ /\ cr_pc = "idle"
          /\ \E p \in CropLines : CropBegin(p)
       \/ CropPoint
       \/ CropEnd
    /\ UNCHANGED notCrop

(***************************************************************************)
(* Properties of polylinebindxfcrop.                                       *)
(***************************************************************************)
\* the positions of a line whose vertex is out of the box
OutOfBox(line) == {i \in 1..Len(line) : ~InBox(line[i])}

\* C17: every vertex of every output polyline is inside the box, except at
\* most one anchoring vertex in front of the first kept vertex and one
\* behind the last kept vertex of the run, each beyond a min edge.
C17_CropContainment ==
    \A n \in 1..Len(cr_output) :
        LET line == cr_output[n]
        IN  /\ OutOfBox(line) \subseteq {1, Len(line)}
            /\ \A i \in OutOfBox(line) :
                   line[i].x < CropBox.minx \/ line[i].y < CropBox.miny
            /\ 1 \in OutOfBox(line) => InBox(line[2])
            /\ Len(line) \in OutOfBox(line) => InBox(line[Len(line) - 1])
            /\ Len(line) >= 2

\* C17 witness: the call is over and an output line runs from an anchor
\* through a kept vertex to an anchor
C17_Witness ==
    /\ cr_pc = "done"
    /\ \E n \in 1..Len(cr_output) :
           /\ Len(cr_output[n]) >= 3
           /\ OutOfBox(cr_output[n]) = {1, Len(cr_output[n])}
    /\ \E i \in 1..Len(cr_p) : cr_p[i].x > CropBox.maxx

\* a and b follow one another somewhere in the input polyline
ConsecutiveInInput(a, b) ==
    \E j \in 1..(Len(cr_p) - 1) : cr_p[j] = a /\ cr_p[j + 1] = b

\* C26: any two consecutive vertices of an output polyline are consecutive
\* vertices of the input polyline, also when the input leaves the box after a
\* single vertex in the box and comes back later.
C26_NoBridge ==
    \A n \in 1..Len(cr_output) :
        \A i \in 1..(Len(cr_output[n]) - 1) :
            ConsecutiveInInput(cr_output[n][i], cr_output[n][i + 1])

\* C26, what the code keeps: a run that is closed by a vertex out of the box is
\* cut there, so an output polyline whose vertices in the box number two or
\* more before the gap is not joined over it; only a lone vertex is.  Stated
\* for the line in progress: it is empty whenever the vertex just read is out
\* of the box and more than one vertex had been kept.
C26_LoneVertexKept ==
    (cr_pc = "loop" /\ cr_pre # <<>> /\ ~InBox(cr_pre[1]))
        => Len(cr_poly) <= 1

(***************************************************************************)
(* heightmap2contours (src/src/contours.rs): the global fence, hmin and    *)
(* hmax, and the levels the loop visits.  Elevations and the interval are  *)
(* counted in units of 5 mm, in exact arithmetic.                          *)
(***************************************************************************)
Tolerance == 4              \* 0.02
Intervals == {4, 6, 8, 10}  \* cinterval: 0.02, 0.03, 0.04, 0.05
Elevations == -5..12
Samples == UNION {[1..n -> Elevations] : n \in 1..MaxSamples}

\* (ele / cinterval + 0.5).floor() * cinterval
Nearest(ele, v) == ((2 * ele + v) \div (2 * v)) * v

\* a fence that always pushes upwards
FenceUp(ele, v) ==
    IF Abs(ele - Nearest(ele, v)) < Tolerance THEN Nearest(ele, v) + Tolerance
    ELSE ele

\* the body of the fence loop for one sample
Fence(ele, v) ==
    LET temp == Nearest(ele, v)
    IN  IF Abs(ele - temp) < Tolerance
        THEN IF ele - temp < 0 THEN temp - Tolerance ELSE temp + Tolerance
        ELSE ele

\* heightmap2contours is called
Contours(grid, v) ==
    /\ hc_pc = "idle"
    /\ hc_v' = v
    /\ hc_grid' = grid
    /\ hc_avg' = grid
    /\ hc_pc' = "fence"
    /\ UNCHANGED <<hc_hmin, hc_hmax, hc_level, hc_visited>>

\* for (_, _, ele) in avg_alt.iter_mut()
FenceAll ==
    /\ hc_pc = "fence"
    /\ hc_avg' = [i \in 1..Len(hc_avg) |-> Fence(hc_avg[i], hc_v)]
    /\ hc_pc' = "minmax"
    /\ UNCHANGED <<hc_v, hc_grid, hc_hmin, hc_hmax, hc_level, hc_visited>>

\* hmin, hmax and the first level
MinMax ==
    /\ hc_pc = "minmax"
    /\ hc_hmin' = SetMin({hc_avg[i] : i \in 1..Len(hc_avg)})
    /\ hc_hmax' = SetMax({hc_avg[i] : i \in 1..Len(hc_avg)})
    /\ hc_level' = (hc_hmin' \div hc_v) * hc_v
    /\ hc_pc' = "levels"
    /\ UNCHANGED <<hc_v, hc_grid, hc_avg, hc_visited>>

\* one turn of the level loop
VisitLevel ==
    /\ hc_pc = "levels"
    /\ hc_level < hc_hmax
    /\ hc_visited' = hc_visited \cup {hc_level}
    /\ hc_level' = hc_level + hc_v
    /\ UNCHANGED <<hc_pc, hc_v, hc_grid, hc_avg, hc_hmin, hc_hmax>>

\* if level >= hmax { break }
LevelsDone ==
    /\ hc_pc = "levels"
    /\ hc_level >= hc_hmax
    /\ hc_pc' = "done"
    /\ UNCHANGED <<hc_v, hc_grid, hc_avg, hc_hmin, hc_hmax, hc_level, hc_visited>>

InitContour ==
    /\ hc_pc = "idle"
    /\ hc_v = 0
    /\ hc_grid = <<>>
    /\ hc_avg = <<>>
    /\ hc_hmin = 0
    /\ hc_hmax = 0
    /\ hc_level = 0
    /\ hc_visited = {}

NextContour ==
    /\ \/ /\ hc_pc = "idle"
          /\ \E grid \in Samples, v \in Intervals : Contours(grid, v)
       \/ FenceAll
       \/ MinMax
       \/ VisitLevel
       \/ LevelsDone
    /\ UNCHANGED notContour

(***************************************************************************)
(* Properties of the fence.                                                *)
(***************************************************************************)
\* the multiples of v around the elevations
Multiples(v) == {k * v : k \in -6..6}

\* the distance of x to the nearest multiple of v
ToMultiple(x, v) == Min2(x % v, v - (x % v))

Fenced == hc_pc \in {"minmax", "levels", "done"}

\* every sample is off the visited levels, Tolerance away from the multiples
\* of v, and on the side of every multiple it was on
FenceHolds ==
    \A i \in 1..Len(hc_avg) :
        /\ hc_avg[i] \notin hc_visited
        /\ ToMultiple(hc_avg[i], hc_v) >= Tolerance
        /\ \A L \in Multiples(hc_v) :
               /\ hc_grid[i] < L => hc_avg[i] < L
               /\ hc_grid[i] > L => hc_avg[i] > L

\* C18: after the fence, for every interval v > 0, no sample equals a level
\* the loop visits and every sample lies at least 0.02 from the nearest
\* multiple of v, on the side it was on before.
C18_Fence == Fenced => FenceHolds

\* C18 as the fence keeps it: the same, for intervals of at least 0.04
C18_FenceWideInterval == (Fenced /\ hc_v >= 2 * Tolerance) => FenceHolds

\* C18 witness: the loop is over, a sample that lay on a visited level was
\* pushed off it and another was pushed down
C18_Witness ==
    /\ hc_pc = "done"
    /\ hc_v >= 2 * Tolerance
    /\ \E i \in 1..Len(hc_avg) : hc_grid[i] \in hc_visited /\ hc_avg[i] > hc_grid[i]
    /\ \E i \in 1..Len(hc_avg) : hc_avg[i] < hc_grid[i]

(***************************************************************************)
(* bindxfmerge (src/src/merge.rs) with BinaryDxf and Classification of     *)
(* src/src/geometry.rs.  A file name is its stem and the text between the  *)
(* last "_" and ".dxf.bin"; a file is the BinaryDxf object that            *)
(* write_object stored in it.  An entity is its classification.            *)
(***************************************************************************)
suffixes_to_merge ==
    <<"contours", "c2g", "basemap", "c3g", "formlines", "dotknolls", "detected">>

Name(stem, tail) == [stem |-> stem, tail |-> tail]
InputNames == {Name("a", "contours"), Name("b", "contours"), Name("a", "formlines")}
OtherNames == {Name("a", "laz")}
\* the order in which fs.list returns the names
ListOrder == <<Name("a", "laz"), Name("a", "contours"), Name("a", "formlines"),
               Name("b", "contours")>>

Classifications == {"Contour", "ContourIntermed"}

\* Classification::is_intermed
is_intermed(c) ==
    c \in {"ContourIntermed", "ContourIndexIntermed", "DepressionIntermed",
           "DepressionIndexIntermed"}

GeometryKinds == {"Points", "Polylines2", "Polylines3"}
Geometry(kind, items) == [kind |-> kind, items |-> items]
Geometries ==
    {Geometry(k, items) : k \in GeometryKinds,
        items \in UNION {[1..n -> Classifications] : n \in 0..MaxEntities}}

\* BinaryDxf: the version and the data (the bounds are left out)
BinaryDxf(ver, data) == [version |-> ver, data |-> data]
NoSuchFile == BinaryDxf("none", <<>>)
StaleFile == BinaryDxf("older", <<>>)
DxfFiles == {BinaryDxf("current", <<g>>) : g \in Geometries} \cup {StaleFile}

Folders ==
    {f \in [InputNames \cup OtherNames -> DxfFiles \cup {NoSuchFile}] :
        \A n \in OtherNames : f[n] \in {NoSuchFile, StaleFile}}

\* BinaryDxf::from_reader(fs.open(file)) succeeds
Loads(loaded) == loaded.version = "current"

\* a filter that keeps every entity
KeepAll(geo) == geo

\* the three arms of the match: the entities that are not intermed
Filtered(geo) ==
    Geometry(geo.kind, SelectSeq(geo.items, LAMBDA c : ~is_intermed(c)))

RECURSIVE FilterEach(_)
FilterEach(geometry) ==
    IF geometry = <<>> THEN <<>>
    ELSE <<Filtered(Head(geometry))>> \o FilterEach(Tail(geometry))

\* the names of the listing that end in _<suffix>.dxf.bin, in its order
Matching(folder, suffix) ==
    SelectSeq(ListOrder, LAMBDA n : folder[n] # NoSuchFile /\ n.tail = suffix)

\* the loop over the files of one suffix: <<geometries, all_geometries,
\* first_file_bounds, "Ok" or "Err">>
RECURSIVE LoadFiles(_, _, _, _, _)
LoadFiles(files, suffix, geometries, all, bounds) ==
    IF files = <<>> THEN <<geometries, all, bounds, "Ok">>
    ELSE LET loaded == bm_folder[Head(files)]
         IN  IF ~Loads(loaded) THEN <<geometries, all, bounds, "Err">>
             ELSE LoadFiles(Tail(files), suffix, geometries \o loaded.data,
                            IF suffix = "contours" THEN all \o FilterEach(loaded.data)
                            ELSE all \o loaded.data,
                            TRUE)

\* BinaryDxf::to_dxf: the layers of the entities written, in order
RECURSIVE ToDxf(_)
ToDxf(data) ==
    IF data = <<>> THEN <<>>
    ELSE <<Geometry("dxf", Head(data).items)>> \o ToDxf(Tail(data))

OutNames ==
    {Name("merged", suffixes_to_merge[i]) : i \in 1..Len(suffixes_to_merge)}
        \cup {Name("merged", "")}
DxfName(n) == Name("dxf", n.tail)

\* fs.create(name) and to_writer, and the same for the .dxf when asked for
WriteOut(name, data) ==
    /\ bm_written' = bm_written \cup {name}
                        \cup (IF bm_output_dxf THEN {DxfName(name)} ELSE {})
    /\ bm_out' = [n \in DOMAIN bm_out |->
                     IF n = name THEN data
                     ELSE IF n = DxfName(name) /\ bm_output_dxf THEN ToDxf(data)
                     ELSE bm_out[n]]

\* bindxfmerge is called: the listing is sorted into dxf_files
Merge(folder, output_dxf) ==
    /\ bm_pc = "idle"
    /\ bm_folder' = folder
    /\ bm_output_dxf' = output_dxf
    /\ bm_dxf_files' = [i \in 1..Len(suffixes_to_merge) |->
                           Matching(folder, suffixes_to_merge[i])]
    /\ IF \A i \in 1..Len(suffixes_to_merge) :
              Matching(folder, suffixes_to_merge[i]) = <<>>
       THEN bm_pc' = "done" /\ bm_ret' = "Ok"
       ELSE bm_pc' = "suffixes" /\ bm_ret' = "none"
    /\ bm_i' = 1
    /\ UNCHANGED <<bm_bounds, bm_all, bm_written, bm_out>>

\* one turn of the loop over the suffixes
MergeSuffix ==
    /\ bm_pc = "suffixes"
    /\ bm_i <= Len(suffixes_to_merge)
    /\ LET suffix == suffixes_to_merge[bm_i]
           files == bm_dxf_files[bm_i]
           r == LoadFiles(files, suffix, <<>>, bm_all, bm_bounds)
       IN  IF files = <<>>
           THEN /\ bm_i' = bm_i + 1
                /\ UNCHANGED <<bm_pc, bm_bounds, bm_all, bm_written, bm_out, bm_ret>>
           ELSE IF r[4] = "Err"
           THEN /\ bm_pc' = "done"
                /\ bm_ret' = "Err"
                /\ bm_all' = r[2]
                /\ bm_bounds' = r[3]
                /\ UNCHANGED <<bm_i, bm_written, bm_out>>
           ELSE /\ bm_all' = r[2]
                /\ bm_bounds' = r[3]
                /\ WriteOut(Name("merged", suffix), r[1])
                /\ bm_i' = bm_i + 1
                /\ UNCHANGED <<bm_pc, bm_ret>>
    /\ UNCHANGED <<bm_folder, bm_output_dxf, bm_dxf_files>>

\* the loop is over
SuffixesDone ==
    /\ bm_pc = "suffixes"
    /\ bm_i > Len(suffixes_to_merge)
    /\ bm_pc' = "merged"
    /\ UNCHANGED <<bm_folder, bm_output_dxf, bm_dxf_files, bm_i, bm_bounds,
                   bm_all, bm_written, bm_out, bm_ret>>

\* output all geometries to a single file
WriteMerged ==
    /\ bm_pc = "merged"
    /\ IF bm_bounds THEN WriteOut(Name("merged", ""), bm_all)
       ELSE UNCHANGED <<bm_written, bm_out>>
    /\ bm_pc' = "done"
    /\ bm_ret' = "Ok"
    /\ UNCHANGED <<bm_folder, bm_output_dxf, bm_dxf_files, bm_i, bm_bounds, bm_all>>

InitMerge ==
    /\ bm_pc = "idle"
    /\ bm_folder = [n \in InputNames \cup OtherNames |-> NoSuchFile]
    /\ bm_output_dxf = FALSE
    /\ bm_dxf_files = [i \in 1..Len(suffixes_to_merge) |-> <<>>]
    /\ bm_i = 1
    /\ bm_bounds = FALSE
    /\ bm_all = <<>>
    /\ bm_written = {}
    /\ bm_out = [n \in OutNames \cup {DxfName(m) : m \in OutNames} |-> <<>>]
    /\ bm_ret = "none"

NextMerge ==
    /\ \/ /\ bm_pc = "idle"
          /\ \E folder \in Folders, output_dxf \in BOOLEAN : Merge(folder, output_dxf)
       \/ MergeSuffix
       \/ SuffixesDone
       \/ WriteMerged
    /\ UNCHANGED notMerge

(***************************************************************************)
(* Properties of bindxfmerge.                                              *)
(***************************************************************************)
AllClassifications ==
    {"ContourSimple", "Contour", "ContourIndex", "ContourIntermed",
     "ContourIndexIntermed", "Depression", "DepressionIndex", "DepressionIntermed",
     "DepressionIndexIntermed"}

\* how many entities of classification c the geometries of kind k hold
Entities(data, k, c) ==
    Cardinality({gi \in (1..Len(data)) \X (1..MaxEntities + 1) :
        /\ data[gi[1]].kind = k
        /\ gi[2] <= Len(data[gi[1]].items)
        /\ data[gi[1]].items[gi[2]] = c})

\* the same, summed over the input files named in S, leaving out those of
\* the contours files when skip holds
RECURSIVE EntitiesOf(_, _, _, _)
EntitiesOf(S, k, c, skip) ==
    IF S = {} THEN 0
    ELSE LET n == CHOOSE m \in S : TRUE
         IN  (IF skip /\ n.tail = "contours" THEN 0
              ELSE Entities(bm_folder[n].data, k, c))
             + EntitiesOf(S \ {n}, k, c, skip)

InputOf(suffix) == {n \in InputNames : bm_folder[n] # NoSuchFile /\ n.tail = suffix}
Inputs == {n \in InputNames : bm_folder[n] # NoSuchFile}

\* C19: when bindxfmerge returns Ok, every suffix with an input file has its
\* merged_<suffix>.dxf.bin holding every entity of those files, and
\* merged.dxf.bin holds every entity of all suffixes but the intermed ones
\* of the contours files.
C19_Merge ==
    (bm_pc = "done" /\ bm_ret = "Ok") =>
        /\ \A i \in 1..Len(suffixes_to_merge) :
               InputOf(suffixes_to_merge[i]) # {} =>
                   /\ Name("merged", suffixes_to_merge[i]) \in bm_written
                   /\ \A k \in GeometryKinds, c \in AllClassifications :
                          Entities(bm_out[Name("merged", suffixes_to_merge[i])], k, c)
                              = EntitiesOf(InputOf(suffixes_to_merge[i]), k, c, FALSE)
        /\ Inputs # {} =>
               /\ Name("merged", "") \in bm_written
               /\ \A k \in GeometryKinds, c \in AllClassifications :
                      Entities(bm_out[Name("merged", "")], k, c)
                          = EntitiesOf(Inputs, k, c,
                                       c \in {"ContourIntermed", "ContourIndexIntermed",
                                              "DepressionIntermed",
                                              "DepressionIndexIntermed"})

\* C19 witness: Ok after two contours files with an intermed entity and a
\* formlines file with one; the merged file holds the latter only
C19_Witness ==
    /\ bm_pc = "done" /\ bm_ret = "Ok"
    /\ \A n \in InputNames : bm_folder[n] # NoSuchFile
    /\ \E k \in GeometryKinds :
           /\ EntitiesOf(InputOf("contours"), k, "ContourIntermed", FALSE) >= 1
           /\ Entities(bm_out[Name("merged", "contours")], k, "ContourIntermed") >= 1
    /\ \E k \in GeometryKinds :
           Entities(bm_out[Name("merged", "")], k, "ContourIntermed") = 1

(***************************************************************************)
(* Batch mode of main (src/src/main.rs): the main thread spawns            *)
(* config.processes workers and joins their handles in the order of the    *)
(* spawns.  batch_process runs tile after tile; a run that panics unwinds  *)
(* the worker's thread.  When the main thread ends, by return or by a      *)
(* panic of its own, the process ends and takes the running threads along. *)
(***************************************************************************)
WorkerIds == 1..MaxProc

\* the process ends: the threads still running are gone
EndOfProcess(state) ==
    [i \in WorkerIds |-> IF state[i] = "running" THEN "killed" ELSE state[i]]

\* main is started in batch mode with proc > 1
Batch(proc) ==
    /\ mt_pc = "idle"
    /\ mt_proc' = proc
    /\ mt_pc' = "spawn"
    /\ UNCHANGED <<mt_handles, mt_joined, mt_exit, wk_state, wk_tiles>>

\* for i in 0..proc: thread::spawn, handles.push(handle)
Spawn ==
    /\ mt_pc = "spawn"
    /\ mt_handles < mt_proc
    /\ wk_state' = [wk_state EXCEPT ![mt_handles + 1] = "running"]
    /\ mt_handles' = mt_handles + 1
    /\ UNCHANGED <<mt_pc, mt_proc, mt_joined, mt_exit, wk_tiles>>

\* the loop of the spawns is over
Spawned ==
    /\ mt_pc = "spawn"
    /\ mt_handles = mt_proc
    /\ mt_pc' = "join"
    /\ UNCHANGED <<mt_proc, mt_handles, mt_joined, mt_exit, wk_state, wk_tiles>>

\* batch_process in worker i runs one more tile
RunTile(i) ==
    /\ wk_state[i] = "running"
    /\ wk_tiles[i] < MaxTiles
    /\ wk_tiles' = [wk_tiles EXCEPT ![i] = @ + 1]
    /\ UNCHANGED <<mt_pc, mt_proc, mt_handles, mt_joined, mt_exit, wk_state>>

\* the run of a tile panics in worker i
TilePanics(i) ==
    /\ wk_state[i] = "running"
    /\ wk_state' = [wk_state EXCEPT ![i] = "panicked"]
    /\ UNCHANGED <<mt_pc, mt_proc, mt_handles, mt_joined, mt_exit, wk_tiles>>

\* batch_process returns in worker i: no tile is left
ThreadComplete(i) ==
    /\ wk_state[i] = "running"
    /\ wk_state' = [wk_state EXCEPT ![i] = "complete"]
    /\ UNCHANGED <<mt_pc, mt_proc, mt_handles, mt_joined, mt_exit, wk_tiles>>

\* handle.join().unwrap() for the next handle, once its thread has ended
Join ==
    /\ mt_pc = "join"
    /\ mt_joined < mt_proc
    /\ wk_state[mt_joined + 1] \in {"complete", "panicked"}
    /\ IF wk_state[mt_joined + 1] = "panicked"
       THEN /\ mt_pc' = "exited"
            /\ mt_exit' = "panicked"
            /\ wk_state' = EndOfProcess(wk_state)
            /\ UNCHANGED mt_joined
       ELSE /\ mt_joined' = mt_joined + 1
            /\ UNCHANGED <<mt_pc, mt_exit, wk_state>>
    /\ UNCHANGED <<mt_proc, mt_handles, wk_tiles>>

\* every handle is joined: return
Joined ==
    /\ mt_pc = "join"
    /\ mt_joined = mt_proc
    /\ mt_pc' = "exited"
    /\ mt_exit' = "returned"
    /\ wk_state' = EndOfProcess(wk_state)
    /\ UNCHANGED <<mt_proc, mt_handles, mt_joined, wk_tiles>>

InitBatch ==
    /\ mt_pc = "idle"
    /\ mt_proc = 0
    /\ mt_handles = 0
    /\ mt_joined = 0
    /\ mt_exit = "none"
    /\ wk_state = [i \in WorkerIds |-> "none"]
    /\ wk_tiles = [i \in WorkerIds |-> 0]

NextBatch ==
    /\ \/ \E proc \in 2..MaxProc : Batch(proc)
       \/ Spawn
       \/ Spawned
       \/ \E i \in WorkerIds : RunTile(i)
       \/ \E i \in WorkerIds : TilePanics(i)
       \/ \E i \in WorkerIds : ThreadComplete(i)
       \/ Join
       \/ Joined
    /\ UNCHANGED notBatch

(***************************************************************************)
(* Properties of batch mode.                                               *)
(***************************************************************************)
\* C20: when the process has ended, every worker that did not panic itself
\* has run its tiles to completion, whichever workers panicked and in
\* whatever order.
C20_WorkerIsolation ==
    mt_pc = "exited" =>
        \A i \in 1..mt_proc : wk_state[i] \in {"complete", "panicked"}

\* what the joins do keep: the workers spawned before the first one that
\* panicked have ended before the process does
C20_EarlierWorkersEnd ==
    mt_pc = "exited" =>
        \A i \in 1..mt_joined : wk_state[i] = "complete"

(***************************************************************************)
(* heightmap2contours (src/src/contours.rs): the thinning of one assembled *)
(* polyline and its scaling to world coordinates.                          *)
(***************************************************************************)
Scales == {1, 2}       \* heightmap.scale
Offsets == {0, 3}      \* heightmap.xoffset, heightmap.yoffset

\* an assembled polyline of n points, all different
Assembled(n) == [i \in 1..n |-> <<i, n - i>>]

\* a thinning test that skips the odd positions
SkippedOdd(ii, ldata) == ii > 5 /\ ii < ldata - 5 /\ ldata > 12 /\ ii % 2 = 1

\* ii > 5 && ii < ldata - 5 && ldata > 12 && ii % 2 == 0
Skipped(ii, ldata) == ii > 5 /\ ii < ldata - 5 /\ ldata > 12 /\ ii % 2 = 0

\* x * size + xmin, y * size + ymin
World(pt, size, xmin, ymin) == Point2(pt[1] * size + xmin, pt[2] * size + ymin)

\* the filter_map is entered for one polyline
ThinBegin(n, size, xmin, ymin) ==
    /\ tn_pc = "idle"
    /\ tn_in' = [polyline |-> Assembled(n), size |-> size, xmin |-> xmin, ymin |-> ymin]
    /\ tn_i' = 0
    /\ tn_out' = <<>>
    /\ tn_pc' = "filter"

\* the closure of filter_map for the element at index i
ThinPoint ==
    /\ tn_pc = "filter"
    /\ tn_i < Len(tn_in.polyline)
    /\ LET ii == tn_i + 1
           ldata == Len(tn_in.polyline) - 1
       IN  tn_out' = IF Skipped(ii, ldata) THEN tn_out
                     ELSE Append(tn_out, World(tn_in.polyline[tn_i + 1], tn_in.size,
                                               tn_in.xmin, tn_in.ymin))
    /\ tn_i' = tn_i + 1
    /\ UNCHANGED <<tn_pc, tn_in>>

\* collect, lines.push
ThinEnd ==
    /\ tn_pc = "filter"
    /\ tn_i = Len(tn_in.polyline)
    /\ tn_pc' = "done"
    /\ UNCHANGED <<tn_in, tn_i, tn_out>>

InitThin ==
    /\ tn_pc = "idle"
    /\ tn_in = [polyline |-> <<>>, size |-> 0, xmin |-> 0, ymin |-> 0]
    /\ tn_i = 0
    /\ tn_out = <<>>

NextThin ==
    /\ \/ /\ tn_pc = "idle"
          /\ \E n \in 2..MaxLine, size \in Scales, xmin \in Offsets, ymin \in Offsets :
                 ThinBegin(n, size, xmin, ymin)
       \/ ThinPoint
       \/ ThinEnd
    /\ UNCHANGED notThin

(***************************************************************************)
(* Properties of the thinning.                                             *)
(***************************************************************************)
\* the points of the input at the positions from p on that are not in dropped,
\* in world coordinates and in order
RECURSIVE KeptFrom(_, _)
KeptFrom(p, dropped) ==
    IF p > Len(tn_in.polyline) THEN <<>>
    ELSE (IF p \in dropped THEN <<>>
          ELSE <<[x |-> tn_in.polyline[p][1] * tn_in.size + tn_in.xmin,
                  y |-> tn_in.polyline[p][2] * tn_in.size + tn_in.ymin]>>)
         \o KeptFrom(p + 1, dropped)

\* C21: of a polyline of length L > 12 exactly the points at the even
\* positions p with 5 < p < L - 5 are dropped, the others are kept in order;
\* a polyline of length L <= 12 is output unchanged.
C21_Thinning ==
    tn_pc = "done" =>
        LET L == Len(tn_in.polyline)
        IN  tn_out = KeptFrom(1, {p \in 1..L : L > 12 /\ p % 2 = 0 /\ 5 < p /\ p < L - 5})

\* C21 as the code thins: the even positions p with 5 < p < L - 6 of a
\* polyline of length L > 13
C21_ThinningByLastIndex ==
    tn_pc = "done" =>
        LET L == Len(tn_in.polyline)
        IN  tn_out = KeptFrom(1, {p \in 1..L : L > 13 /\ p % 2 = 0 /\ 5 < p /\ p < L - 6})

\* C21 witness: a polyline of more than 15 points was thinned: points 6 and
\* 8 are gone and both ends are kept
C21_Witness ==
    /\ tn_pc = "done"
    /\ Len(tn_in.polyline) > 15
    /\ Len(tn_out) = Len(tn_in.polyline) - 2
    /\ tn_out[1].x = 1 * tn_in.size + tn_in.xmin
    /\ tn_out[Len(tn_out)].x = Len(tn_in.polyline) * tn_in.size + tn_in.xmin

(***************************************************************************)
(* knolldetector (src/src/knolls.rs): tops, candidates, the choice of the  *)
(* best candidate of each top and the pins.  Loops are numbered from 1;    *)
(* elevations count in units of 0.05 m.  The point-in-polygon tests are    *)
(* taken from the nesting of the loops: parent[m] is the loop right around *)
(* loop m, 0 for none.                                                     *)
(***************************************************************************)
halfinterval == 25                  \* contour_interval / 2.0 * scalefactor: 1.25
KnollElevations == {100, 90, 84}    \* 5.0, 4.5, 4.2

\* the loops around loop m, at most k of them
RECURSIVE Around(_, _, _)
Around(parent, m, k) ==
    IF k = 0 \/ parent[m] = 0 THEN {}
    ELSE {parent[m]} \cup Around(parent, parent[m], k - 1)

\* the nestings of n loops in which the loop right around a loop is one of
\* its neighbours in the input
Nestings(n) ==
    {f \in [1..n -> 0..n] :
        \A m \in 1..n : f[m] \in {0, m - 1, m + 1} /\ m \notin Around(f, m, n)}

KnollInputs ==
    UNION {{[elevation |-> e, parent |-> f, long |-> b] :
               e \in [1..n -> KnollElevations], f \in Nestings(n), b \in BOOLEAN} :
           n \in 1..MaxLoops}

\* the bounding box and crossing count of loop l say the test point of loop
\* m is inside l
PointInside(l, m) == l \in Around(kd_in.parent, m, Len(kd_in.parent))

Elevation(l) == kd_in.elevation[l]
LoopIds == [l \in 1..Len(kd_in.elevation) |-> l]
Candidate(id, topid) == [id |-> id, topid |-> topid]
Ids(cands) == {cands[i].id : i \in 1..Len(cands)}

\* the tops a loop is a candidate of, in the order of tops
TopsOver(l) ==
    SelectSeq(kd_tops, LAMBDA t : /\ Elevation(l) < Elevation(t) - 2
                                  /\ Elevation(l) > Elevation(t) - 92
                                  /\ PointInside(l, t))

RECURSIVE CandidatesFrom(_)
CandidatesFrom(l) ==
    IF l > Len(kd_in.elevation) THEN <<>>
    ELSE (IF l \in kd_live /\ TopsOver(l) # <<>>
          THEN <<Candidate(l, Head(TopsOver(l)))>>
          ELSE <<>>) \o CandidatesFrom(l + 1)

\* (el / halfinterval + 1.0).floor() * halfinterval - el
Move(el) == ((el \div halfinterval) + 1) * halfinterval - el

\* the loop that fills best and mov: best[topid] is 0 while topid has no entry
RECURSIVE BestOf(_, _, _, _)
BestOf(cands, k, best, mov) ==
    IF k > Len(cands) THEN best
    ELSE LET id == cands[k].id
             topid == cands[k].topid
             test == Move(Elevation(id))
             tid == best[topid]
         IN  IF tid = 0
             THEN BestOf(cands, k + 1, [best EXCEPT ![topid] = id],
                         [mov EXCEPT ![id] = test])
             ELSE IF mov[tid] < 35 /\ Abs(Elevation(topid) - Elevation(tid) - 12) < 4
             THEN BestOf(cands, k + 1, best, mov)
             ELSE IF mov[tid] > test
             THEN BestOf(cands, k + 1, [best EXCEPT ![topid] = id],
                         [mov EXCEPT ![id] = test])
             ELSE BestOf(cands, k + 1, best, mov)

\* a test that lets every candidate through
SurvivesAlways(c, best) ==
    \/ ~kd_in.long
    \/ Elevation(c.topid) > Elevation(c.id) + 9
    \/ Elevation(c.id) - 50 * (Elevation(c.id) \div 50) > 9

\* the test for new_candidates
Survives(c, best) ==
    /\ best[c.topid] = c.id
    /\ \/ ~kd_in.long
       \/ Elevation(c.topid) > Elevation(c.id) + 9
       \/ Elevation(c.id) - 50 * (Elevation(c.id) \div 50) > 9

\* the pins of the loops from l on
RECURSIVE PinsFrom(_)
PinsFrom(l) ==
    IF l > Len(kd_in.elevation) THEN <<>>
    ELSE (IF /\ l \in kd_live
             /\ ~\E i \in 1..Len(kd_new) :
                    kd_new[i].id # l /\ PointInside(l, kd_new[i].id)
          THEN <<[id |-> l, elevation |-> Elevation(l),
                  top_elevation |-> Elevation(kd_new[Len(kd_new)].topid)]>>
          ELSE <<>>) \o PinsFrom(l + 1)

\* knolldetector has read the closed loops
Knolls(input) ==
    /\ kd_pc = "idle"
    /\ kd_in' = input
    /\ kd_live' = 1..Len(input.elevation)
    /\ kd_pc' = "tops"
    /\ UNCHANGED <<kd_tops, kd_cands, kd_new, kd_pins>>

\* a top has no higher loop inside
FindTops ==
    /\ kd_pc = "tops"
    /\ kd_tops' = SelectSeq(LoopIds, LAMBDA l :
                      ~\E m \in 1..Len(kd_in.elevation) :
                          m # l /\ Elevation(m) > Elevation(l) /\ PointInside(l, m))
    /\ kd_pc' = "candidates"
    /\ UNCHANGED <<kd_in, kd_live, kd_cands, kd_new, kd_pins>>

\* a candidate lies 0.1 to 4.6 below a top and around it; other loops are cleared
FindCandidates ==
    /\ kd_pc = "candidates"
    /\ kd_cands' = CandidatesFrom(1)
    /\ kd_live' = Ids(kd_cands')
    /\ kd_pc' = "best"
    /\ UNCHANGED <<kd_in, kd_tops, kd_new, kd_pins>>

\* best, mov and new_candidates
SelectBest ==
    /\ kd_pc = "best"
    /\ LET none == [l \in 1..Len(kd_in.elevation) |-> 0]
           best == BestOf(kd_cands, 1, none, none)
       IN  kd_new' = SelectSeq(kd_cands, LAMBDA c : Survives(c, best))
    /\ kd_live' = Ids(kd_new')
    /\ kd_pc' = "pins"
    /\ UNCHANGED <<kd_in, kd_tops, kd_cands, kd_pins>>

\* pins.txt
WritePins ==
    /\ kd_pc = "pins"
    /\ kd_pins' = PinsFrom(1)
    /\ kd_live' = {kd_pins'[i].id : i \in 1..Len(kd_pins')}
    /\ kd_pc' = "done"
    /\ UNCHANGED <<kd_in, kd_tops, kd_cands, kd_new>>

InitKnoll ==
    /\ kd_pc = "idle"
    /\ kd_in = [elevation |-> <<>>, parent |-> <<>>, long |-> FALSE]
    /\ kd_live = {}
    /\ kd_tops = <<>>
    /\ kd_cands = <<>>
    /\ kd_new = <<>>
    /\ kd_pins = <<>>

NextKnoll ==
    /\ \/ /\ kd_pc = "idle"
          /\ \E input \in KnollInputs : Knolls(input)
       \/ FindTops
       \/ FindCandidates
       \/ SelectBest
       \/ WritePins
    /\ UNCHANGED notKnoll

(***************************************************************************)
(* Properties of knolldetector.                                            *)
(***************************************************************************)
\* the candidates of a list that belong to top t
OfTop(cands, t) == {i \in 1..Len(cands) : cands[i].topid = t}

\* the top a pin's loop was matched to
ParentTop(pin) ==
    kd_new[CHOOSE i \in 1..Len(kd_new) : kd_new[i].id = pin.id].topid

\* C22: after the selection at most one candidate remains for every top, and
\* at most one pin is written for every top.
C22_OneCandidatePerTop ==
    /\ kd_pc \in {"pins", "done"} =>
           \A t \in 1..Len(kd_in.elevation) : Cardinality(OfTop(kd_new, t)) <= 1
    /\ kd_pc = "done" =>
           \A t \in 1..Len(kd_in.elevation) :
               Cardinality({i \in 1..Len(kd_pins) : ParentTop(kd_pins[i]) = t}) <= 1

\* C22 witness: a top had two candidates and a pin was written for one
C22_Witness ==
    /\ kd_pc = "done"
    /\ \E t \in 1..Len(kd_in.elevation) :
           /\ Cardinality(OfTop(kd_cands, t)) >= 2
           /\ \E i \in 1..Len(kd_pins) : ParentTop(kd_pins[i]) = t

\* C23: every pin records as its top-elevation the elevation of the top its
\* own loop was matched to.
C23_PinTopElevation ==
    kd_pc = "done" =>
        \A i \in 1..Len(kd_pins) :
            kd_pins[i].top_elevation = kd_in.elevation[ParentTop(kd_pins[i])]

\* what the pins do record: the elevation of the top of the last candidate
C23_PinTopOfLastCandidate ==
    kd_pc = "done" =>
        \A i \in 1..Len(kd_pins) :
            kd_pins[i].top_elevation = kd_in.elevation[kd_new[Len(kd_new)].topid]

(***************************************************************************)
(* smoothjoin (src/src/merge.rs): the intervals taken from the config, the *)
(* level h of a line and its final classification.  Heights and intervals  *)
(* count in units of 1.25 m, in exact arithmetic.                          *)
(***************************************************************************)
ContourIntervals == {2, 4}        \* config.contour_interval: 2.5, 5.0
Scalefactors == {1, 2}            \* config.scalefactor
IndexContours == {0, 5, 10, 20}   \* config.indexcontours: 0, 6.25, 12.5, 25
Formlines == {0, 1, 2}            \* config.formline
Heights == -4..MaxHeight          \* the height h3 read off the grid

\* (x / interval + 0.5).floor() * interval
RoundTo(x, interval) == ((2 * x + interval) \div (2 * interval)) * interval

\* ((level / step).floor() - level / step) == 0.0
WholeMultiple(level, step) == (level \div step) * step = level

\* "Add" Index flag
AddIndex(layer) ==
    CASE layer = "Contour" -> "ContourIndex"
      [] layer = "Depression" -> "DepressionIndex"
      [] OTHER -> layer

\* "Add" Intermed flag
AddIntermed(layer) ==
    CASE layer = "Contour" -> "ContourIntermed"
      [] layer = "ContourIndex" -> "ContourIndexIntermed"
      [] layer = "Depression" -> "DepressionIntermed"
      [] layer = "DepressionIndex" -> "DepressionIndexIntermed"
      [] OTHER -> layer

\* a classification that takes the Intermed flag at the even levels
LayerOfEven(depression, h, cfg) ==
    LET family == IF depression = -1 THEN "Depression" ELSE "Contour"
        indexed == IF /\ cfg.indexcontours # 0
                      /\ WholeMultiple(RoundTo(h, cfg.interval), cfg.indexcontours)
                   THEN AddIndex(family) ELSE family
    IN  IF /\ cfg.formline > 0
           /\ WholeMultiple(RoundTo(h, cfg.interval), 2 * cfg.interval)
        THEN AddIntermed(indexed) ELSE indexed

\* let mut layer = ...; the two flags
LayerOf(depression, h, cfg) ==
    LET family == IF depression = -1 THEN "Depression" ELSE "Contour"
        indexed == IF /\ cfg.indexcontours # 0
                      /\ WholeMultiple(RoundTo(h, cfg.interval), cfg.indexcontours)
                   THEN AddIndex(family) ELSE family
    IN  IF /\ cfg.formline > 0
           /\ ~WholeMultiple(RoundTo(h, cfg.interval), 2 * cfg.interval)
        THEN AddIntermed(indexed) ELSE indexed

\* smoothjoin takes halfinterval, indexcontours and interval from the config
SmoothJoin(contour_interval, scalefactor, indexcontours, formline) ==
    /\ sj_pc = "idle"
    /\ sj_cfg' = [formline |-> formline,
                  indexcontours |-> IF formline > 0 THEN 5 * contour_interval
                                    ELSE indexcontours,
                  interval |-> (contour_interval \div 2) * scalefactor]
    /\ sj_pc' = "height"
    /\ UNCHANGED sj_line

\* h of a line, from the grid heights at one of its vertices
ReadHeight(h3) ==
    /\ sj_pc = "height"
    /\ sj_line' = [sj_line EXCEPT !.h3 = h3, !.h = RoundTo(h3, sj_cfg.interval)]
    /\ sj_pc' = "classify"
    /\ UNCHANGED sj_cfg

\* the line is classified and pushed to out2_lines
Classify(depression) ==
    /\ sj_pc = "classify"
    /\ sj_line' = [sj_line EXCEPT !.depression = depression,
                                  !.layer = LayerOf(depression, sj_line.h, sj_cfg)]
    /\ sj_pc' = "done"
    /\ UNCHANGED sj_cfg

InitSmooth ==
    /\ sj_pc = "idle"
    /\ sj_cfg = [formline |-> 0, indexcontours |-> 0, interval |-> 0]
    /\ sj_line = [h3 |-> 0, h |-> 0, depression |-> 1, layer |-> "none"]

NextSmooth ==
    /\ \/ /\ sj_pc = "idle"
          /\ \E ci \in ContourIntervals, sf \in Scalefactors, ic \in IndexContours,
                f \in Formlines : SmoothJoin(ci, sf, ic, f)
       \/ \E h3 \in Heights : ReadHeight(h3)
       \/ \E depression \in {1, -1} : Classify(depression)
    /\ UNCHANGED notSmooth

(***************************************************************************)
(* Properties of the classification.                                       *)
(***************************************************************************)
DepressionFamily ==
    {"Depression", "DepressionIndex", "DepressionIntermed", "DepressionIndexIntermed"}
ContourFamily ==
    {"Contour", "ContourIndex", "ContourIntermed", "ContourIndexIntermed"}
IndexFlag ==
    {"ContourIndex", "ContourIndexIntermed", "DepressionIndex", "DepressionIndexIntermed"}
IntermedFlag ==
    {"ContourIntermed", "ContourIndexIntermed", "DepressionIntermed",
     "DepressionIndexIntermed"}

\* the multiple of interval nearest to h3, the upper one of two
LevelOf(h3, interval) ==
    CHOOSE m \in {k * interval : k \in -(MaxHeight + 4)..(MaxHeight + 4)} :
        2 * m <= 2 * h3 + interval /\ 2 * h3 + interval < 2 * m + 2 * interval

QPoints == (0..1) \X (0..1)
NoPoint == <<>>
Slots == {1, 2}
Keys == QPoints \X Slots
Key(pt, slot) == <<pt, slot>>
Ends(seg) == {seg[1], seg[2]}
Segments == {seg \in QPoints \X QPoints : seg[1] # seg[2]}

\* a registration with a single slot for each end point
InsertEndOneSlot(st, a, b) ==
    [obj |-> Append(st.obj, Key(a, 1)),
     curves |-> [st.curves EXCEPT ![Key(a, 1)] = b]]

\* one end of check_obj_in: slot 1 when it is free, else slot 2, whatever it
\* holds; the key is pushed to obj
InsertEnd(st, a, b) ==
    IF st.curves[Key(a, 1)] = NoPoint
    THEN [obj |-> Append(st.obj, Key(a, 1)),
          curves |-> [st.curves EXCEPT ![Key(a, 1)] = b]]
    ELSE [obj |-> Append(st.obj, Key(a, 2)),
          curves |-> [st.curves EXCEPT ![Key(a, 2)] = b]]

\* check_obj_in(obj, curves, x1, x2, y1, y2) after the quantisation
check_obj_in(st, a, b) ==
    IF a # b THEN InsertEnd(InsertEnd(st, a, b), b, a) ELSE st

\* if curves.get(&(head, slot)).is_some_and(|v| *v == res) { curves.remove }
RemoveBack(curves, head, res, slot) ==
    IF curves[Key(head, slot)] # NoPoint /\ curves[Key(head, slot)] = res
    THEN [curves EXCEPT ![Key(head, slot)] = NoPoint]
    ELSE curves

\* follow the half-edge at key: it is removed, with the half-edges of its
\* target that lead back
Follow(curves, key) ==
    RemoveBack(RemoveBack([curves EXCEPT ![key] = NoPoint],
                          curves[key], key[1], 1),
               curves[key], key[1], 2)

\* curves.get(&(head, slot)).is_some_and(|v| *v != res)
LeadsOn(curves, head, res, slot) ==
    /\ curves[Key(head, slot)] # NoPoint
    /\ curves[Key(head, slot)] # res

\* the loop of a polyline: slot 1 of head first, then slot 2, else the
\* polyline is complete
RECURSIVE WalkLoop(_, _, _, _)
WalkLoop(curves, polyline, res, head) ==
    IF LeadsOn(curves, head, res, 1) \/ LeadsOn(curves, head, res, 2)
    THEN LET key == IF LeadsOn(curves, head, res, 1) THEN Key(head, 1)
                    ELSE Key(head, 2)
         IN  WalkLoop(Follow(curves, key), Append(polyline, curves[key]),
                      head, curves[key])
    ELSE [curves |-> curves, polyline |-> polyline]

\* the polyline that starts at a key curves holds
WalkFrom(curves, key) ==
    WalkLoop(Follow(curves, key), <<key[1], curves[key]>>, key[1],
             curves[key])

\* the positions of obj, behind the ones passed, whose key curves still holds
KeysAhead == {i \in (pa_k + 1)..Len(pa_obj) : pa_curves[pa_obj[i]] # NoPoint}

\* the level loop starts with obj and curves empty
Assemble ==
    /\ pa_pc = "idle"
    /\ pa_segs' = <<>>
    /\ pa_obj' = <<>>
    /\ pa_curves' = [key \in Keys |-> NoPoint]
    /\ pa_pc' = "register"
    /\ UNCHANGED <<pa_k, pa_polylines>>

\* a cell of the level hands a segment to check_obj_in
CheckObjIn(seg) ==
    /\ pa_pc = "register"
    /\ Len(pa_segs) < MaxSegments
    /\ \A i \in 1..Len(pa_segs) : Ends(pa_segs[i]) # Ends(seg)
    /\ LET st == check_obj_in([obj |-> pa_obj, curves |-> pa_curves],
                              seg[1], seg[2])
       IN  /\ pa_obj' = st.obj
           /\ pa_curves' = st.curves
    /\ pa_segs' = Append(pa_segs, seg)
    /\ UNCHANGED <<pa_pc, pa_k, pa_polylines>>

\* the cells of the level are done: for k in obj.iter()
Registered ==
    /\ pa_pc = "register"
    /\ pa_segs # <<>>
    /\ pa_pc' = "walk"
    /\ pa_k' = 0
    /\ pa_polylines' = <<>>
    /\ UNCHANGED <<pa_segs, pa_obj, pa_curves>>

\* the turns of "for k in obj.iter()" up to and with the next key that curves
\* holds: the keys whose half-edge is gone are passed over, the polyline of
\* that key is walked and pushed
Walk ==
    /\ pa_pc = "walk"
    /\ KeysAhead # {}
    /\ LET k == CHOOSE i \in KeysAhead : \A j \in KeysAhead : i <= j
           w == WalkFrom(pa_curves, pa_obj[k])
       IN  /\ pa_curves' = w.curves
           /\ pa_polylines' = Append(pa_polylines, w.polyline)
           /\ pa_k' = k
    /\ UNCHANGED <<pa_pc, pa_segs, pa_obj>>

\* no key of obj is left in curves: the level is done
WalksDone ==
    /\ pa_pc = "walk"
    /\ KeysAhead = {}
    /\ pa_k' = Len(pa_obj)
    /\ pa_pc' = "done"
    /\ UNCHANGED <<pa_segs, pa_obj, pa_curves, pa_polylines>>

InitAssemble ==
    /\ pa_pc = "idle"
    /\ pa_segs = <<>>
    /\ pa_obj = <<>>
    /\ pa_curves = [key \in Keys |-> NoPoint]
    /\ pa_k = 0
    /\ pa_polylines = <<>>

NextAssemble ==
    /\ \/ Assemble
       \/ /\ pa_pc = "register"
          /\ \E seg \in Segments : CheckObjIn(seg)
       \/ Registered
       \/ Walk
       \/ WalksDone
    /\ UNCHANGED notAssemble

(***************************************************************************)
(* Properties of the assembly.                                             *)
(***************************************************************************)
\* the places <<n, i>> where a segment is a pair of consecutive vertices of an
\* emitted polyline, in either direction
PlacesOf(seg) ==
    {pl \in (1..Len(pa_polylines)) \X (1..(2 * MaxSegments + 1)) :
        /\ pl[2] < Len(pa_polylines[pl[1]])
        /\ Ends(seg) = {pa_polylines[pl[1]][pl[2]],
                        pa_polylines[pl[1]][pl[2] + 1]}}

\* some end point is shared by three or more of the segments
ThreeShare ==
    \E pt \in QPoints :
        Cardinality({i \in 1..Len(pa_segs) : pt \in Ends(pa_segs[i])}) >= 3

\* C27: when the level is done, every registered segment is a pair of
\* consecutive vertices at exactly one place of the emitted polylines, also
\* when three or more segments share an end point.
C27_AssemblyExact ==
    pa_pc = "done" =>
        \A i \in 1..Len(pa_segs) : Cardinality(PlacesOf(pa_segs[i])) = 1

\* C27 as amended: when the level is done and no end point is shared by more
\* than two of the registered segments, every registered segment is a pair of
\* consecutive vertices at exactly one place of the emitted polylines.
C27_AssemblyExactUpToTwo ==
    (pa_pc = "done" /\ ~ThreeShare) =>
        \A i \in 1..Len(pa_segs) : Cardinality(PlacesOf(pa_segs[i])) = 1

\* C27 witness: three segments that make a chain, the middle one last, have
\* been assembled into one polyline of four vertices
C27_Witness ==
    /\ pa_pc = "done" /\ ~ThreeShare
    /\ Len(pa_segs) = 3
    /\ Len(pa_polylines) = 1
    /\ Len(pa_polylines[1]) = 4
    /\ pa_polylines[1][1] # pa_polylines[1][4]
    /\ Ends(pa_segs[3]) = {pa_polylines[1][2], pa_polylines[1][3]}

\* C27, what the code keeps: no polyline holds a pair of consecutive vertices
\* that is not a registered segment.
C27_OnlyRegistered ==
    \A n \in 1..Len(pa_polylines) :
        \A i \in 1..(Len(pa_polylines[n]) - 1) :
            \E j \in 1..Len(pa_segs) :
                Ends(pa_segs[j]) = {pa_polylines[n][i], pa_polylines[n][i + 1]}

(***************************************************************************)
(* The head/tail merge loop of smoothjoin (src/src/merge.rs) and of        *)
(* knolldetector (src/src/knolls.rs): the same code over keys that are     *)
(* quantised coordinates in the one and formatted coordinates in the       *)
(* other.  Lines are numbered from 0 as in the code; in heads1 and heads2  *)
(* the value 0 stands for "no line" (unwrap_or(&0)).  A key is a number,   *)
(* a polyline the list of the keys of its points.                          *)
(***************************************************************************)
Dash == 0                   \* the head and tail "-" of a line left out
JoinKeys == 1..3
\* the input polylines: two points each, or <<>> for a polyline of more than
\* 200 points, which knolldetector leaves out
JoinLines == {<<>>} \cup [1..2 -> JoinKeys]
JoinInputs == UNION {[0..(n - 1) -> JoinLines] : n \in 1..MaxLines}
NoLines == [i \in {} |-> <<>>]
NoHeads == [key \in JoinKeys \cup {Dash} |-> 0]

RECURSIVE ReverseOf(_)
ReverseOf(s) == IF s = <<>> THEN <<>> ELSE Append(ReverseOf(Tail(s)), Head(s))

\* if *heads1.get(&key).unwrap_or(&0) == 0 { heads1.insert(key, j) }
\* else { heads2.insert(key, j) }
PutHead(m, key, j) ==
    IF m.heads1[key] = 0 THEN [m EXCEPT !.heads1[key] = j]
    ELSE [m EXCEPT !.heads2[key] = j]

\* the loop that fills heads1 and heads2, from line j on
RECURSIVE RegisterFrom(_, _, _)
RegisterFrom(j, lines, m) ==
    IF j \notin DOMAIN lines THEN m
    ELSE IF lines[j] = <<>> THEN RegisterFrom(j + 1, lines, m)
    ELSE RegisterFrom(j + 1, lines,
             PutHead(PutHead(m, lines[j][1], j), lines[j][Len(lines[j])], j))

\* tmp != 0 && tmp != l && !el_x[tmp].is_empty()
Found(tmp, l) == tmp # 0 /\ tmp # l /\ jn_el[tmp] # <<>>

\* the four lookups of an iteration in their order: to_join, or 0 for
\* end_loop = true
Partner(l) ==
    IF Found(jn_heads1[jn_heads[l]], l) THEN jn_heads1[jn_heads[l]]
    ELSE IF Found(jn_heads2[jn_heads[l]], l) THEN jn_heads2[jn_heads[l]]
    ELSE IF Found(jn_heads2[jn_tails[l]], l) THEN jn_heads2[jn_tails[l]]
    ELSE IF Found(jn_heads1[jn_tails[l]], l) THEN jn_heads1[jn_tails[l]]
    ELSE 0

\* heads2.insert(key, 0); heads1.insert(key, 0)
ZeroHeads(st, key) ==
    [st EXCEPT !.heads1[key] = 0, !.heads2[key] = 0]

\* a join that knows the configuration tail-to-head only
JoinTailToHeadOnly(st, l, j) ==
    IF st.tails[l] = st.heads[j]
    THEN [ZeroHeads(st, st.tails[l]) EXCEPT
              !.el[l] = st.el[l] \o st.el[j],
              !.tails[l] = st.tails[j],
              !.el[j] = <<>>]
    ELSE st

\* the body of "if !end_loop": the first configuration that applies
JoinWith(st, l, j) ==
    IF st.tails[l] = st.heads[j]
    THEN [ZeroHeads(st, st.tails[l]) EXCEPT
              !.el[l] = st.el[l] \o st.el[j],
              !.tails[l] = st.tails[j],
              !.el[j] = <<>>]
    ELSE IF st.tails[l] = st.tails[j]
    THEN [ZeroHeads(st, st.tails[l]) EXCEPT
              !.el[l] = st.el[l] \o ReverseOf(st.el[j]),
              !.tails[l] = st.heads[j],
              !.el[j] = <<>>]
    ELSE IF st.heads[l] = st.tails[j]
    THEN [ZeroHeads(st, st.heads[l]) EXCEPT
              !.el[l] = st.el[j] \o st.el[l],
              !.heads[l] = st.heads[j],
              !.el[j] = <<>>]
    ELSE IF st.heads[l] = st.heads[j]
    THEN [ZeroHeads(st, st.heads[l]) EXCEPT
              !.el[l] = ReverseOf(st.el[j]) \o st.el[l],
              !.heads[l] = st.tails[j],
              !.el[j] = <<>>]
    ELSE st

\* the polylines are read: heads, tails, el_x, heads1 and heads2 are filled
ReadLines(lines) ==
    /\ jn_pc = "idle"
    /\ jn_heads' = [j \in DOMAIN lines |->
                       IF lines[j] = <<>> THEN Dash ELSE lines[j][1]]
    /\ jn_tails' = [j \in DOMAIN lines |->
                       IF lines[j] = <<>> THEN Dash
                       ELSE lines[j][Len(lines[j])]]
    /\ jn_el' = lines
    /\ LET m == RegisterFrom(0, lines, [heads1 |-> NoHeads, heads2 |-> NoHeads])
       IN  /\ jn_heads1' = m.heads1
           /\ jn_heads2' = m.heads2
    /\ jn_l' = 0
    /\ jn_pc' = "for"
    /\ jn_joins' = 0

\* a turn of "for l" with el_x[l] empty
SkipEmpty ==
    /\ jn_pc = "for"
    /\ jn_l \in DOMAIN jn_el
    /\ jn_el[jn_l] = <<>>
    /\ jn_l' = jn_l + 1
    /\ UNCHANGED <<jn_pc, jn_heads, jn_tails, jn_el, jn_heads1, jn_heads2,
                   jn_joins>>

\* a turn of "for l" with el_x[l] not empty: the while loop is entered
EnterWhile ==
    /\ jn_pc = "for"
    /\ jn_l \in DOMAIN jn_el
    /\ jn_el[jn_l] # <<>>
    /\ jn_pc' = "while"
    /\ UNCHANGED <<jn_l, jn_heads, jn_tails, jn_el, jn_heads1, jn_heads2,
                   jn_joins>>

\* an iteration of the while loop that finds a partner
JoinStep ==
    /\ jn_pc = "while"
    /\ Partner(jn_l) # 0
    /\ LET st == JoinWith([heads |-> jn_heads, tails |-> jn_tails,
                           el |-> jn_el, heads1 |-> jn_heads1,
                           heads2 |-> jn_heads2], jn_l, Partner(jn_l))
       IN  /\ jn_heads' = st.heads
           /\ jn_tails' = st.tails
           /\ jn_el' = st.el
           /\ jn_heads1' = st.heads1
           /\ jn_heads2' = st.heads2
           /\ jn_joins' = IF st.el = jn_el THEN jn_joins ELSE jn_joins + 1
    /\ UNCHANGED <<jn_pc, jn_l>>

\* the iteration that finds no partner: end_loop = true
EndLoop ==
    /\ jn_pc = "while"
    /\ Partner(jn_l) = 0
    /\ jn_l' = jn_l + 1
    /\ jn_pc' = "for"
    /\ UNCHANGED <<jn_heads, jn_tails, jn_el, jn_heads1, jn_heads2, jn_joins>>

\* "for l" is over
JoinsDone ==
    /\ jn_pc = "for"
    /\ jn_l \notin DOMAIN jn_el
    /\ jn_pc' = "done"
    /\ UNCHANGED <<jn_l, jn_heads, jn_tails, jn_el, jn_heads1, jn_heads2,
                   jn_joins>>

InitJoin ==
    /\ jn_pc = "idle"
    /\ jn_heads = NoLines
    /\ jn_tails = NoLines
    /\ jn_el = NoLines
    /\ jn_heads1 = NoHeads
    /\ jn_heads2 = NoHeads
    /\ jn_l = 0
    /\ jn_joins = 0

NextJoin ==
    /\ \/ /\ jn_pc = "idle"
          /\ \E lines \in JoinInputs : ReadLines(lines)
       \/ SkipEmpty
       \/ EnterWhile
       \/ JoinStep
       \/ EndLoop
       \/ JoinsDone
    /\ UNCHANGED notJoin

(***************************************************************************)
(* Properties of the merge loop.                                           *)
(***************************************************************************)
\* the lines that still hold points
NonEmpty(el) == {j \in DOMAIN el : el[j] # <<>>}

\* C28: the merge loop terminates for every set of polylines: once the while
\* loop of a line is entered, the loop over the lines comes to its end.
C28_Terminates == (jn_pc = "while") ~> (jn_pc = "done")

\* C28, the reason: an iteration that finds a partner empties it and nothing
\* else, so the number of lines that hold points goes down by one.
C28_Decreases ==
    [][(jn_pc = "while" /\ jn_pc' = "while") =>
           /\ jn_el[Partner(jn_l)] # <<>>
           /\ NonEmpty(jn_el') = NonEmpty(jn_el) \ {Partner(jn_l)}]_vars

\* C28 witness: three polylines have been joined into one by two iterations
\* of the while loop, and the loop over the lines is over
C28_Witness ==
    /\ jn_pc = "done"
    /\ jn_joins = 2
    /\ \E j \in DOMAIN jn_el : Len(jn_el[j]) = 6

(***************************************************************************)
(* The locks of MemoryFileSystem (src/src/io/fs/memory.rs): the RwLock of  *)
(* the root and the RwLock of every content slot, taken by the operations  *)
(* of concurrent threads.  An operation is a series of steps, one for each *)
(* lock it has to wait for and one for its return, where its guards are    *)
(* dropped.  The content of the files is left out: only which slot the     *)
(* entry of a path holds, and which slot a WritableFile is linked to.      *)
(*                                                                         *)
(* std::sync::RwLock does not say whether a reader is let in while a       *)
(* writer waits.  In the model a reader is let in whenever no writer holds *)
(* the lock, which is every case in which any policy lets it in; for the   *)
(* properties a reader counts as waiting for the writers that wait, too.   *)
(*                                                                         *)
(* There is one path, so that every copy is a copy of the path onto        *)
(* itself: the case in which the two slot locks of copy are one lock.      *)
(*                                                                         *)
(* A slot has no name in the code; here it has a number.  After every step *)
(* that changes which slots are referred to, the slots are numbered anew   *)
(* in the order in which the entries of the paths and then the             *)
(* WritableFiles of the threads refer to them, so that two states that     *)
(* differ in the numbers only are one state.                               *)
(***************************************************************************)
LockPaths == 1..1
LockThreads == 1..MaxThreads
LockSlots == 1..(Cardinality(LockPaths) + MaxThreads + 1)
ReadFileOps == {"open", "read_to_string", "file_size", "read_object"}
IdleThread == [pc |-> "idle", kind |-> "none", mode |-> "none", slot |-> 0,
               src |-> 0, dst |-> 0]
\* a thread whose operation has its locks and is about to return
Returning == [IdleThread EXCEPT !.pc = "ret"]
ReturningDrop == [IdleThread EXCEPT !.pc = "ret", !.kind = "drop"]

\* the slots an entry or a WritableFile refers to
SlotsInUse ==
    {lk_entry[p] : p \in LockPaths} \cup {lk_writer[t] : t \in LockThreads}

\* Arc::new(RwLock::new(..)): a slot nothing refers to
FreshSlot == CHOOSE s \in LockSlots \ SlotsInUse :
                 \A r \in LockSlots \ SlotsInUse : s <= r

\* the record of what the numbers of the slots occur in
LockState == [th |-> lk_th, slotR |-> lk_slotR, slotW |-> lk_slotW,
              entry |-> lk_entry, writer |-> lk_writer]

\* the slots numbered anew: first the slots of the entries in the order of the
\* paths, then the other slots of the WritableFiles in the order of the threads
Renumbered(st) ==
    LET np == Cardinality(LockPaths)
        refs == [i \in 1..(np + MaxThreads) |->
                    IF i <= np THEN st.entry[i] ELSE st.writer[i - np]]
        \* the places where a slot is referred to for the first time
        firsts == {i \in DOMAIN refs :
                      refs[i] # 0 /\ \A j \in 1..(i - 1) : refs[j] # refs[i]}
        rank == [s \in LockSlots \cup {0} |->
                    IF \E i \in firsts : refs[i] = s
                    THEN Cardinality({i \in firsts :
                             \A j \in DOMAIN refs : refs[j] = s => i <= j})
                    ELSE 0]
        back == [k \in LockSlots |->
                    IF \E s \in LockSlots : rank[s] = k
                    THEN CHOOSE s \in LockSlots : rank[s] = k ELSE 0]
    IN  [th |-> [t \in LockThreads |-> [st.th[t] EXCEPT !.slot = rank[@]]],
         slotR |-> [k \in LockSlots |->
                       IF back[k] = 0 THEN {} ELSE st.slotR[back[k]]],
         slotW |-> [k \in LockSlots |->
                       IF back[k] = 0 THEN 0 ELSE st.slotW[back[k]]],
         entry |-> [p \in LockPaths |-> rank[st.entry[p]]],
         writer |-> [t \in LockThreads |-> rank[st.writer[t]]]]

\* the step leaves the file system in state st
Becomes(st) ==
    LET new == Renumbered(st)
    IN  /\ lk_th' = new.th
        /\ lk_slotR' = new.slotR
        /\ lk_slotW' = new.slotW
        /\ lk_entry' = new.entry
        /\ lk_writer' = new.writer

\* get_file_entry_or_create: the slot of the entry, a new one when there is
\* no entry
SlotOrCreate(p) == IF lk_entry[p] # 0 THEN lk_entry[p] ELSE FreshSlot

\* the threads that wait for the write lock of the root
RootWriteWaiters ==
    {t \in LockThreads : lk_th[t].pc = "root" /\ lk_th[t].mode = "write"}

\* the threads that wait for the write lock of slot s
SlotWriteWaiters(s) ==
    {t \in LockThreads : /\ lk_th[t].pc = "slot" /\ lk_th[t].mode = "write"
                         /\ lk_th[t].slot = s}

\* RwLock::read() returns: no writer holds the lock
CanRead(holder) == holder = 0

\* RwLock::write() returns: nobody holds the lock
CanWrite(holder, readers) == holder = 0 /\ readers = {}

\* a copy whose read guard of the source lives to the end of the function
HeldAfterCloneKept(readers, t) == readers

\* the read guard of from_file.data is a temporary of the statement that
\* clones the content: it is dropped at the end of that statement
HeldAfterClone(readers, t) == readers \ {t}

\* a thread calls an operation: it goes for the lock of the root
CallOp(t, kind, mode, src, dst) ==
    /\ lk_th[t].pc = "idle"
    /\ lk_th' = [lk_th EXCEPT ![t] = [pc |-> "root", kind |-> kind,
                                      mode |-> mode, slot |-> 0,
                                      src |-> src, dst |-> dst]]
    /\ UNCHANGED <<lk_rootR, lk_rootW, lk_slotR, lk_slotW,
                   lk_entry, lk_writer>>

\* open, read_to_string, file_size, read_object: self.root.read()
CallReadFile(t, op, p) ==
    /\ op \in ReadFileOps
    /\ CallOp(t, "read_file", "read", p, 0)

\* list: self.root.read()
CallList(t) == CallOp(t, "list", "read", 0, 0)

\* create: self.root.write(); the thread holds no WritableFile yet
CallCreate(t, p) ==
    /\ lk_writer[t] = 0
    /\ CallOp(t, "create", "write", 0, p)

\* remove_file: self.root.write()
CallRemoveFile(t, p) == CallOp(t, "remove_file", "write", 0, p)

\* write_object: self.root.write()
CallWriteObject(t, p) == CallOp(t, "write_object", "write", 0, p)

\* copy: self.root.write()
CallCopy(t, from, to) == CallOp(t, "copy", "write", from, to)

\* the WritableFile of a thread is dropped: self.data_link.write()
DropWritableFile(t) ==
    /\ lk_th[t].pc = "idle"
    /\ lk_writer[t] # 0
    /\ lk_th' = [lk_th EXCEPT ![t] = [pc |-> "slot", kind |-> "drop",
                                      mode |-> "write", slot |-> lk_writer[t],
                                      src |-> 0, dst |-> 0]]
    /\ UNCHANGED <<lk_rootR, lk_rootW, lk_slotR, lk_slotW,
                   lk_entry, lk_writer>>

\* self.root.read() returns; the operation runs on to its next lock or to
\* its return
RootRead(t) ==
    /\ lk_th[t].pc = "root" /\ lk_th[t].mode = "read"
    /\ CanRead(lk_rootW)
    /\ lk_rootR' = lk_rootR \cup {t}
    /\ lk_th' = [lk_th EXCEPT ![t] =
           IF lk_th[t].kind = "read_file" /\ lk_entry[lk_th[t].src] # 0
           THEN [@ EXCEPT !.pc = "slot", !.slot = lk_entry[lk_th[t].src]]
           ELSE Returning]
    /\ UNCHANGED <<lk_rootW, lk_slotR, lk_slotW, lk_entry,
                   lk_writer>>

\* self.root.write() returns; the operation runs on to its next lock or to
\* its return
RootWrite(t) ==
    /\ lk_th[t].pc = "root" /\ lk_th[t].mode = "write"
    /\ CanWrite(lk_rootW, lk_rootR)
    /\ lk_rootW' = t
    /\ LET kind == lk_th[t].kind
           p == lk_th[t].dst
       IN  Becomes([LockState EXCEPT
               !.entry =
                   IF kind = "create" THEN [@ EXCEPT ![p] = SlotOrCreate(p)]
                   ELSE IF kind = "remove_file" THEN [@ EXCEPT ![p] = 0]
                   ELSE IF kind = "write_object" THEN [@ EXCEPT ![p] = FreshSlot]
                   ELSE @,
               !.writer = IF kind = "create" THEN [@ EXCEPT ![t] = SlotOrCreate(p)]
                          ELSE @,
               !.th[t] =
                   IF kind = "copy" /\ lk_entry[lk_th[t].src] # 0
                   THEN [@ EXCEPT !.pc = "slot", !.mode = "read",
                                  !.slot = lk_entry[lk_th[t].src]]
                   ELSE Returning])
    /\ UNCHANGED lk_rootR

\* file.data.read() returns: the guard is held to the end of the function,
\* in copy to the end of the statement
SlotRead(t) ==
    /\ lk_th[t].pc = "slot" /\ lk_th[t].mode = "read"
    /\ CanRead(lk_slotW[lk_th[t].slot])
    /\ lk_slotR' = [lk_slotR EXCEPT ![lk_th[t].slot] = @ \cup {t}]
    /\ lk_th' = [lk_th EXCEPT ![t] =
                    IF lk_th[t].kind = "copy" THEN [@ EXCEPT !.pc = "clone"]
                    ELSE Returning]
    /\ UNCHANGED <<lk_rootR, lk_rootW, lk_slotW, lk_entry,
                   lk_writer>>

\* copy: the content is cloned, the entry of the target is looked up or made,
\* and the thread goes for the write lock of its slot
CopyCloned(t) ==
    /\ lk_th[t].pc = "clone"
    /\ Becomes([LockState EXCEPT
           !.slotR[lk_th[t].slot] = HeldAfterClone(@, t),
           !.entry[lk_th[t].dst] = SlotOrCreate(lk_th[t].dst),
           !.th[t] = [@ EXCEPT !.pc = "slot", !.mode = "write",
                               !.slot = SlotOrCreate(lk_th[t].dst)]])
    /\ UNCHANGED <<lk_rootR, lk_rootW>>

\* to_file.data.write() of copy, data_link.write() of the drop returns
SlotWrite(t) ==
    /\ lk_th[t].pc = "slot" /\ lk_th[t].mode = "write"
    /\ CanWrite(lk_slotW[lk_th[t].slot], lk_slotR[lk_th[t].slot])
    /\ lk_slotW' = [lk_slotW EXCEPT ![lk_th[t].slot] = t]
    /\ lk_th' = [lk_th EXCEPT ![t] =
                    IF lk_th[t].kind = "drop" THEN ReturningDrop
                    ELSE Returning]
    /\ UNCHANGED <<lk_rootR, lk_rootW, lk_slotR, lk_entry,
                   lk_writer>>

\* the operation returns: its guards are dropped; after the drop of a
\* WritableFile the thread holds it no more
OpReturns(t) ==
    /\ lk_th[t].pc = "ret"
    /\ lk_rootR' = lk_rootR \ {t}
    /\ lk_rootW' = IF lk_rootW = t THEN 0 ELSE lk_rootW
    /\ Becomes([LockState EXCEPT
           !.slotR = [s \in LockSlots |-> lk_slotR[s] \ {t}],
           !.slotW = [s \in LockSlots |-> IF lk_slotW[s] = t THEN 0
                                          ELSE lk_slotW[s]],
           !.writer[t] = IF lk_th[t].kind = "drop" THEN 0 ELSE @,
           !.th[t] = IdleThread])

InitLock ==
    /\ lk_th = [t \in LockThreads |-> IdleThread]
    /\ lk_rootR = {}
    /\ lk_rootW = 0
    /\ lk_slotR = [s \in LockSlots |-> {}]
    /\ lk_slotW = [s \in LockSlots |-> 0]
    /\ lk_entry = [p \in LockPaths |-> 0]
    /\ lk_writer = [t \in LockThreads |-> 0]

NextLock ==
    /\ \/ \E t \in LockThreads, op \in ReadFileOps, p \in LockPaths :
              CallReadFile(t, op, p)
       \/ \E t \in LockThreads : CallList(t)
       \/ \E t \in LockThreads, p \in LockPaths : CallCreate(t, p)
       \/ \E t \in LockThreads, p \in LockPaths : CallRemoveFile(t, p)
       \/ \E t \in LockThreads, p \in LockPaths : CallWriteObject(t, p)
       \/ \E t \in LockThreads, from \in LockPaths, to \in LockPaths :
              CallCopy(t, from, to)
       \/ \E t \in LockThreads : DropWritableFile(t)
       \/ \E t \in LockThreads : RootRead(t)
       \/ \E t \in LockThreads : RootWrite(t)
       \/ \E t \in LockThreads : SlotRead(t)
       \/ \E t \in LockThreads : CopyCloned(t)
       \/ \E t \in LockThreads : SlotWrite(t)
       \/ \E t \in LockThreads : OpReturns(t)
    /\ UNCHANGED notLock

(***************************************************************************)
(* Properties of the locks.                                                *)
(***************************************************************************)
\* thread t holds the lock of the root, thread t holds the lock of slot s
HoldsRoot(t) == t \in lk_rootR \/ lk_rootW = t
HoldsSlot(t, s) == t \in lk_slotR[s] \/ lk_slotW[s] = t

\* the threads thread t waits for: the holders that keep it out of the lock
\* it wants and, for a reader, the writers that wait for that lock
WaitsFor(t) ==
    IF lk_th[t].pc = "root" /\ lk_th[t].mode = "read"
    THEN {u \in LockThreads : lk_rootW = u}
         \cup (RootWriteWaiters \ {t})
    ELSE IF lk_th[t].pc = "root"
    THEN {u \in LockThreads : HoldsRoot(u)}
    ELSE IF lk_th[t].pc = "slot" /\ lk_th[t].mode = "read"
    THEN {u \in LockThreads : lk_slotW[lk_th[t].slot] = u}
         \cup (SlotWriteWaiters(lk_th[t].slot) \ {t})
    ELSE IF lk_th[t].pc = "slot"
    THEN {u \in LockThreads : HoldsSlot(u, lk_th[t].slot)}
    ELSE {}

\* the threads t waits for in n steps of waiting or fewer
RECURSIVE WaitsForWithin(_, _)
WaitsForWithin(t, n) ==
    IF n = 0 THEN {}
    ELSE WaitsFor(t) \cup UNION {WaitsForWithin(u, n - 1) : u \in WaitsFor(t)}

\* C30: the file system is free of deadlock: while a thread is in an
\* operation, some thread in an operation waits for nobody, and no thread
\* waits, directly or through other threads, for itself; a thread that holds the lock of a slot
\* in an operation of the file system holds the lock of the root, so the root
\* lock is taken first; and no thread waits for the lock of a slot that is
\* held by a thread that waits for the lock of the root.
C30_DeadlockFree ==
    /\ (\E t \in LockThreads : lk_th[t].pc # "idle") =>
           \E t \in LockThreads : lk_th[t].pc # "idle" /\ WaitsFor(t) = {}
    /\ \A t \in LockThreads : t \notin WaitsForWithin(t, MaxThreads)
    /\ \A t \in LockThreads, s \in LockSlots :
           (HoldsSlot(t, s) /\ lk_th[t].kind # "drop") => HoldsRoot(t)
    /\ \A t \in LockThreads :
           lk_th[t].pc = "slot" =>
               \A u \in LockThreads :
                   HoldsSlot(u, lk_th[t].slot) => lk_th[u].pc # "root"

\* C30 witness: a thread that copies a path onto itself has dropped its read
\* guard and waits for the write lock of the slot, which the drop of another
\* thread's WritableFile holds
C30_Witness ==
    \E t, u \in LockThreads :
        /\ lk_th[t].kind = "copy" /\ lk_th[t].src = lk_th[t].dst
        /\ lk_th[t].pc = "slot" /\ lk_th[t].mode = "write"
        /\ lk_th[u] = ReturningDrop /\ lk_slotW[lk_th[t].slot] = u

(***************************************************************************)
(* The specifications.                                                     *)
(***************************************************************************)
Init == InitXyz /\ InitCache /\ InitFs /\ InitPath /\ InitHmap /\ InitSynth
        /\ InitCrop /\ InitContour /\ InitMerge /\ InitBatch /\ InitThin /\ InitKnoll
        /\ InitSmooth /\ InitAssemble /\ InitJoin /\ InitLock

\* the cache at rest: the environment and the files of one run
InitIdleCache == Init /\ ~no_cache /\ cache_file = NoFile

SpecXyz == InitIdleCache /\ [][NextXyz]_vars

SpecCache == Init /\ [][NextCache]_vars

SpecFs == InitIdleCache /\ [][NextFs]_vars

SpecPath == InitIdleCache /\ [][NextPath]_vars

SpecHmap == InitIdleCache /\ [][NextHmap]_vars

SpecSynth == InitIdleCache /\ [][NextSynth]_vars

SpecCrop == InitIdleCache /\ [][NextCrop]_vars

SpecContour == InitIdleCache /\ [][NextContour]_vars

SpecMerge == InitIdleCache /\ [][NextMerge]_vars

SpecBatch == InitIdleCache /\ [][NextBatch]_vars

SpecThin == InitIdleCache /\ [][NextThin]_vars

SpecKnoll == InitIdleCache /\ [][NextKnoll]_vars

SpecSmooth == InitIdleCache /\ [][NextSmooth]_vars

SpecAssemble == InitIdleCache /\ [][NextAssemble]_vars

\* the merge loop is sequential code of one thread: once the lines are read
\* its steps keep being taken
SpecJoin ==
    /\ InitIdleCache
    /\ [][NextJoin]_vars
    /\ WF_joinVars(SkipEmpty \/ EnterWhile \/ JoinStep \/ EndLoop \/ JoinsDone)

SpecLock == InitIdleCache /\ [][NextLock]_vars

=============================================================================
